---- MODULE Spec2Model ----
(***************************************************************************)
(* A model of the agent rendering layer of dye: the agents GnuLs, Eza, Fzf *)
(* and Iterm and the shared helper LsColorsFromStyle.ls_colors_from_style. *)
(* A scope (configuration keys plus an insertion ordered style mapping) is *)
(* declared key by key and style by style, then the scope's agent runs.    *)
(* Text is modelled by TLA+ strings built with \o, so that joins, decimal  *)
(* formatting and the export statement are computed as the code does.      *)
(* The registry of agent classes and the Dye application around the agents *)
(* (output elements, loading of themes and patterns, apply, dispatch) have *)
(* specifications of their own further down.                               *)
(***************************************************************************)
EXTENDS Integers, Sequences, FiniteSets, TLC

VARIABLES scope, result, call, runs, classmap, defined,
          environ, output_elements, formatter_styles, args, finished

vars == <<scope, result, call, runs, classmap, defined,
         environ, output_elements, formatter_styles, args, finished>>

\* AgentBase.classmap and the agent classes defined so far
registry == <<classmap, defined>>

\* the dye application: os.environ, Dye.output_elements,
\* RichHelpFormatter.styles, the parsed arguments and what the last operation
\* of the application handed over
application == <<environ, output_elements, formatter_styles, args, finished>>

\* ------------------------------------------------------------------------
\* Bounds of the model
\* ------------------------------------------------------------------------

\* the largest number of entries declared in a scope's style mapping
MaxStyles == 2

\* the largest number of runs of the agent against one scope
MaxRuns == 2

\* the largest number of agent classes defined
MaxClasses == 3

\* ------------------------------------------------------------------------
\* Text helpers
\* ------------------------------------------------------------------------

Digits == <<"0", "1", "2", "3", "4", "5", "6", "7", "8", "9">>

\* the decimal digits of a non-negative integer, one character each
RECURSIVE chars(_)
chars(n) == IF n < 10 THEN <<Digits[n + 1]>> ELSE Append(chars(n \div 10), Digits[(n % 10) + 1])

\* sep.join(list) for a list of strings
RECURSIVE join(_, _)
join(sep, list) ==
    IF Len(list) = 0 THEN ""
    ELSE IF Len(list) = 1 THEN list[1]
    ELSE list[1] \o sep \o join(sep, Tail(list))

\* the string made of a sequence of characters
RECURSIVE concat(_)
concat(string) == IF Len(string) = 0 THEN "" ELSE string[1] \o concat(Tail(string))

\* str(n) for a non-negative integer
str(n) == concat(chars(n))

\* the members of a list
elements(seq) == {seq[i] : i \in 1..Len(seq)}

\* ------------------------------------------------------------------------
\* The style model (rich.style.Style and rich.color.Color as the agents
\* use them)
\* ------------------------------------------------------------------------

\* a style without a color has color (or bgcolor) None
None == [type |-> "none", number |-> 0, triplet |-> <<0, 0, 0>>]

Default == [type |-> "default", number |-> 0, triplet |-> <<0, 0, 0>>]

Standard(n) == [type |-> "standard", number |-> n, triplet |-> <<0, 0, 0>>]

EightBit(n) == [type |-> "eight_bit", number |-> n, triplet |-> <<0, 0, 0>>]

TrueColor(r, g, b) == [type |-> "truecolor", number |-> 0, triplet |-> <<r, g, b>>]

\* the text attributes of a style, in the order of their SGR bit
Attributes == <<"bold", "dim", "italic", "underline", "reverse", "strike">>

AttributeSet == {Attributes[i] : i \in 1..Len(Attributes)}

Style(color, bgcolor, attrs) == [color |-> color, bgcolor |-> bgcolor, attrs |-> attrs]

\* Style.__bool__: a style is falsy when it sets no color, no background
\* and no attribute
truthy(style) == style.color # None \/ style.bgcolor # None \/ style.attrs # {}

\* the SGR parameter of each attribute (rich's style map)
attribute_code(a) ==
    CASE a = "bold" -> <<"1">>
      [] a = "dim" -> <<"2">>
      [] a = "italic" -> <<"3">>
      [] a = "underline" -> <<"4">>
      [] a = "reverse" -> <<"7">>
      [] a = "strike" -> <<"9">>

\* Color.get_ansi_codes: the SGR parameters of a color, each a string given
\* by its characters
get_ansi_codes(color, foreground) ==
    CASE color.type = "default" -> <<IF foreground THEN <<"3", "9">> ELSE <<"4", "9">> >>
      [] color.type = "standard" ->
            LET fore == IF color.number < 8 THEN 30 ELSE 82
                back == IF color.number < 8 THEN 40 ELSE 92
            IN  <<chars((IF foreground THEN fore ELSE back) + color.number)>>
      [] color.type = "eight_bit" ->
            <<IF foreground THEN <<"3", "8">> ELSE <<"4", "8">>, <<"5">>, chars(color.number)>>
      [] color.type = "truecolor" ->
            <<IF foreground THEN <<"3", "8">> ELSE <<"4", "8">>, <<"2">>,
              chars(color.triplet[1]), chars(color.triplet[2]), chars(color.triplet[3])>>

\* the attribute parameters of a style, in bit order
RECURSIVE attribute_codes(_, _)
attribute_codes(style, i) ==
    IF i > Len(Attributes) THEN <<>>
    ELSE (IF Attributes[i] \in style.attrs THEN <<attribute_code(Attributes[i])>> ELSE <<>>)
         \o attribute_codes(style, i + 1)

\* ";".join(sgr), by its characters
RECURSIVE join_chars(_)
join_chars(sgr) ==
    IF Len(sgr) = 0 THEN <<>>
    ELSE IF Len(sgr) = 1 THEN sgr[1]
    ELSE sgr[1] \o <<";">> \o join_chars(Tail(sgr))

\* Style._make_ansi_codes: attributes, then color, then background color
make_ansi_codes(style) ==
    join_chars(attribute_codes(style, 1)
               \o (IF style.color # None THEN get_ansi_codes(style.color, TRUE) ELSE <<>>)
               \o (IF style.bgcolor # None THEN get_ansi_codes(style.bgcolor, FALSE) ELSE <<>>))

\* the escape character \x1b
ESC == "\\x1b"

\* Style.render(text): f"\x1b[{attrs}m{text}\x1b[0m", or the bare text when
\* the style has no SGR parameter; text and result are given by their
\* characters
render(style, text) ==
    LET attrs == make_ansi_codes(style)
    IN  IF Len(attrs) = 0 THEN text
        ELSE <<ESC, "[">> \o attrs \o <<"m">> \o text \o <<ESC, "[", "0", "m">>

\* the class [\d], without the semicolon
is_digit_char(c) == c \in {"0", "1", "2", "3", "4", "5", "6", "7", "8", "9"}

\* a character of the class [;\d]
is_code_char(c) == c \in {";", "0", "1", "2", "3", "4", "5", "6", "7", "8", "9"}

\* the longest run of [;\d] characters of string starting at i
RECURSIVE code_run(_, _)
code_run(string, i) ==
    IF i <= Len(string) /\ is_code_char(string[i])
    THEN <<string[i]>> \o code_run(string, i + 1)
    ELSE <<>>

\* re.match(r"^\x1b\[([;\d]*)m", ansistring): matched tells whether there is
\* a match, group1 is match.group(1)
re_match(ansistring) ==
    IF Len(ansistring) >= 2 /\ ansistring[1] = ESC /\ ansistring[2] = "["
    THEN LET run == code_run(ansistring, 3)
         IN  IF Len(ansistring) >= 3 + Len(run) /\ ansistring[3 + Len(run)] = "m"
             THEN [matched |-> TRUE, group1 |-> concat(run)]
             ELSE [matched |-> FALSE, group1 |-> ""]
    ELSE [matched |-> FALSE, group1 |-> ""]

\* ------------------------------------------------------------------------
\* LsColorsFromStyle
\* ------------------------------------------------------------------------


\* the class body loop entering only the friendly names
RECURSIVE build_map_friendly_only(_, _)
build_map_friendly_only(base, i) ==
    IF i = 0 THEN <<>>
    ELSE (base[i][1] :> base[i][2]) @@ build_map_friendly_only(base, i - 1)

\* the map built by the class body loop: every friendly name to its native
\* code and every native code to itself, later assignments winning
RECURSIVE build_map(_, _)
build_map(base, i) ==
    IF i = 0 THEN <<>>
    ELSE LET friendly == base[i][1]
             actual == base[i][2]
         IN  (actual :> actual) @@ (friendly :> actual) @@ build_map(base, i - 1)

\* the outcome of a call that raises err
raised(err) == [err |-> err, mapname |-> "", render |-> ""]

\* ansi_fragment rendering a default foreground like any other color
ansi_fragment_rendered(mapname, style) ==
    IF style.color = None
    THEN raised("AttributeError")
    ELSE LET match == re_match(render(style, <<"-", "-", "-", "-", "-">>))
         IN  IF ~match.matched
             THEN raised("AttributeError")
             ELSE [err |-> "none", mapname |-> mapname,
                   render |-> mapname \o "=" \o match.group1]

\* the codes of the style and the pair returned, for a resolved name
ansi_fragment(mapname, style) ==
    IF style.color = None
    \* style.color.type on None
    THEN raised("AttributeError")
    ELSE IF style.color.type = "default"
    THEN [err |-> "none", mapname |-> mapname, render |-> mapname \o "=" \o "0"]
    ELSE LET match == re_match(render(style, <<"-", "-", "-", "-", "-">>))
         IN  IF ~match.matched
             \* match.group on None
             THEN raised("AttributeError")
             ELSE [err |-> "none", mapname |-> mapname,
                   render |-> mapname \o "=" \o match.group1]

\* ls_colors_from_style never raising for a name that is not in mapp
ls_colors_from_style_lenient(name, style, mapp, allow_unknown) ==
    IF ~truthy(style) THEN [err |-> "none", mapname |-> "", render |-> ""]
    ELSE ansi_fragment(IF name \in DOMAIN mapp THEN mapp[name] ELSE name, style)

\* ls_colors_from_style raising for every name that is not in mapp
ls_colors_from_style_strict(name, style, mapp, allow_unknown) ==
    IF ~truthy(style) THEN [err |-> "none", mapname |-> "", render |-> ""]
    ELSE IF name \notin DOMAIN mapp THEN raised("DyeError")
    ELSE ansi_fragment(mapp[name], style)

\* the outcome of one call: err is "none" or the exception raised
ls_colors_from_style(name, style, mapp, allow_unknown) ==
    IF ~truthy(style) THEN [err |-> "none", mapname |-> "", render |-> ""]
    ELSE IF name \notin DOMAIN mapp /\ ~allow_unknown THEN raised("DyeError")
    ELSE ansi_fragment(IF name \in DOMAIN mapp THEN mapp[name] ELSE name, style)

\* ------------------------------------------------------------------------
\* The scope: configuration keys and the style mapping
\* ------------------------------------------------------------------------

\* a configuration value: a boolean, a string, an integer or a mapping
\* (opts: a list of <<key, value>> pairs in declaration order)
BoolVal(b) == [t |-> "bool", b |-> b, s |-> "", n |-> 0, m |-> <<>>]

StrVal(s) == [t |-> "str", b |-> FALSE, s |-> s, n |-> 0, m |-> <<>>]

IntVal(n) == [t |-> "int", b |-> FALSE, s |-> "", n |-> n, m |-> <<>>]

Mapping(m) == [t |-> "dict", b |-> FALSE, s |-> "", n |-> 0, m |-> m]

\* the names of the style mapping, in declaration order
style_names(styles) == {styles[i].name : i \in 1..Len(styles)}

\* scope.styles[name], for a name of the mapping
style_of(styles, name) == (CHOOSE i \in 1..Len(styles) : styles[i].name = name)

\* the outcome of a run: status is "ok" or the exception that ended it,
\* returned is the value run() returns (<<>> for None, else <<text>>) and
\* printed the lines it wrote to standard output
Outcome(status, returned, printed) ==
    [status |-> status, returned |-> returned, printed |-> printed]

Failed(err) == Outcome(err, <<>>, <<>>)

\* ------------------------------------------------------------------------
\* GnuLs
\* ------------------------------------------------------------------------

LS_COLORS_BASE_MAP == <<
    <<"text", "no">>,
    <<"file", "fi">>,
    <<"directory", "di">>,
    <<"symlink", "ln">>,
    <<"multi_hard_link", "mh">>,
    <<"pipe", "pi">>,
    <<"socket", "so">>,
    <<"door", "do">>,
    <<"block_device", "bd">>,
    <<"character_device", "cd">>,
    <<"broken_symlink", "or">>,
    <<"missing_symlink_target", "mi">>,
    <<"setuid", "su">>,
    <<"setgid", "sg">>,
    <<"sticky", "st">>,
    <<"other_writable", "ow">>,
    <<"sticky_other_writable", "tw">>,
    <<"executable_file", "ex">>,
    <<"file_with_capability", "ca">>
>>

LS_COLORS_MAP == build_map(LS_COLORS_BASE_MAP, Len(LS_COLORS_BASE_MAP))

\* the default of the export statement's variable
GnuLsVarname == "LS_COLORS"

\* reading clear_builtin without the type check: any value, by its truth
gnu_ls_clear_builtin_truthy(definition) ==
    IF "clear_builtin" \in DOMAIN definition
    THEN [err |-> "none",
          value |-> definition["clear_builtin"] \notin {BoolVal(FALSE), StrVal(""), IntVal(0)}]
    ELSE [err |-> "none", value |-> FALSE]

\* reading clear_builtin: absent is false, a value that is no bool fails
gnu_ls_clear_builtin(definition) ==
    IF "clear_builtin" \in DOMAIN definition
    THEN IF definition["clear_builtin"].t = "bool"
         THEN [err |-> "none", value |-> definition["clear_builtin"].b]
         ELSE [err |-> "DyeSyntaxError", value |-> FALSE]
    ELSE [err |-> "none", value |-> FALSE]


\* the loop over scope.styles leaving out a style whose native code was
\* rendered before
RECURSIVE gnu_ls_styles_once_per_code(_, _, _)
gnu_ls_styles_once_per_code(styles, i, acc) ==
    IF i > Len(styles) \/ acc.err # "none" THEN acc
    ELSE IF truthy(styles[i].style)
    THEN LET r == ls_colors_from_style(styles[i].name, styles[i].style, LS_COLORS_MAP, FALSE)
         IN  IF r.err # "none"
             THEN [acc EXCEPT !.err = r.err]
             ELSE IF \E j \in 1..Len(acc.havecodes) : acc.havecodes[j] = r.mapname
             THEN gnu_ls_styles_once_per_code(styles, i + 1, acc)
             ELSE gnu_ls_styles_once_per_code(styles, i + 1,
                      [acc EXCEPT !.havecodes = Append(@, r.mapname),
                                  !.outlist = Append(@, r.render)])
    ELSE gnu_ls_styles_once_per_code(styles, i + 1, acc)

\* the loop over scope.styles from entry i on, with the lists built so far
RECURSIVE gnu_ls_styles(_, _, _)
gnu_ls_styles(styles, i, acc) ==
    IF i > Len(styles) \/ acc.err # "none" THEN acc
    ELSE IF truthy(styles[i].style)
    THEN LET r == ls_colors_from_style(styles[i].name, styles[i].style, LS_COLORS_MAP, FALSE)
         IN  IF r.err # "none"
             THEN [acc EXCEPT !.err = r.err]
             ELSE gnu_ls_styles(styles, i + 1,
                      [acc EXCEPT !.havecodes = Append(@, r.mapname),
                                  !.outlist = Append(@, r.render)])
    ELSE gnu_ls_styles(styles, i + 1, acc)

\* Style.parse("default")
DefaultStyle == Style(Default, None, {})

\* the clear_builtin loop appending a neutral fragment for every entry,
\* overridden or not
RECURSIVE gnu_ls_builtin_all(_, _)
gnu_ls_builtin_all(i, acc) ==
    IF i > Len(LS_COLORS_BASE_MAP) \/ acc.err # "none" THEN acc
    ELSE LET r == ls_colors_from_style(LS_COLORS_BASE_MAP[i][1], DefaultStyle,
                                       LS_COLORS_MAP, FALSE)
         IN  IF r.err # "none"
             THEN [acc EXCEPT !.err = r.err]
             ELSE gnu_ls_builtin_all(i + 1, [acc EXCEPT !.outlist = Append(@, r.render)])

\* the loop over LS_COLORS_BASE_MAP of clear_builtin from entry i on
RECURSIVE gnu_ls_builtin(_, _)
gnu_ls_builtin(i, acc) ==
    IF i > Len(LS_COLORS_BASE_MAP) \/ acc.err # "none" THEN acc
    ELSE LET name == LS_COLORS_BASE_MAP[i][1]
             code == LS_COLORS_BASE_MAP[i][2]
         IN  IF code \notin {acc.havecodes[j] : j \in 1..Len(acc.havecodes)}
             THEN LET r == ls_colors_from_style(name, DefaultStyle, LS_COLORS_MAP, FALSE)
                  IN  IF r.err # "none"
                      THEN [acc EXCEPT !.err = r.err]
                      ELSE gnu_ls_builtin(i + 1, [acc EXCEPT !.outlist = Append(@, r.render)])
             ELSE gnu_ls_builtin(i + 1, acc)

\* havecodes and outlist at the end of the two loops
gnu_ls_outlist(sc) ==
    LET cb == gnu_ls_clear_builtin(sc.definition)
        start == [err |-> cb.err, havecodes |-> <<>>, outlist |-> <<>>]
        styled == gnu_ls_styles(sc.styles, 1, start)
    IN  IF cb.value THEN gnu_ls_builtin(1, styled) ELSE styled

\* the variable of the export statement, ignoring environment_variable
varname_default(definition, default) == default

\* the variable of the export statement
varname(definition, default) ==
    IF "environment_variable" \in DOMAIN definition
    THEN definition["environment_variable"].s
    ELSE default

\* f'export {varname}="{":".join(outlist)}"'
export_statement(name, outlist) ==
    "export " \o name \o "=\"" \o join(":", outlist) \o "\""

\* GnuLs.run returning nothing when no fragment was rendered
GnuLs_run_unless_empty(sc) ==
    LET lists == gnu_ls_outlist(sc)
    IN  IF lists.err # "none" THEN Failed(lists.err)
        ELSE IF lists.outlist = <<>> THEN Outcome("ok", <<>>, <<>>)
        ELSE Outcome("ok",
                 <<export_statement(varname(sc.definition, GnuLsVarname), lists.outlist)>>,
                 <<>>)


\* GnuLs.run with an outlist that outlives the run and keeps the fragments
\* of the run before
GnuLs_run_accumulating(sc) ==
    LET lists == gnu_ls_outlist(sc)
        kept == IF runs > 0 /\ result.status = "ok" THEN lists.outlist ELSE <<>>
    IN  IF lists.err # "none" THEN Failed(lists.err)
        ELSE Outcome("ok",
                 <<export_statement(varname(sc.definition, GnuLsVarname),
                                    kept \o lists.outlist)>>,
                 <<>>)

\* GnuLs.run: returns the export statement
GnuLs_run(sc) ==
    LET lists == gnu_ls_outlist(sc)
    IN  IF lists.err # "none" THEN Failed(lists.err)
        ELSE Outcome("ok",
                 <<export_statement(varname(sc.definition, GnuLsVarname), lists.outlist)>>,
                 <<>>)

\* ------------------------------------------------------------------------
\* Eza
\* ------------------------------------------------------------------------

EZA_COLORS_BASE_MAP == <<
    <<"filekinds:normal", "fi">>,
    <<"filekinds:directory", "di">>,
    <<"filekinds:symlink", "ln">>,
    <<"filekinds:pipe", "pi">>,
    <<"filekinds:block_device", "bd">>,
    <<"filekinds:char_device", "cd">>,
    <<"filekinds:socket", "so">>,
    <<"filekinds:special", "sp">>,
    <<"filekinds:executable", "ex">>,
    <<"filekinds:mount_point", "mp">>,
    <<"perms:user_read", "ur">>,
    <<"perms:user_write", "uw">>,
    <<"perms:user_executable_file", "ux">>,
    <<"perms:user_execute_other", "ue">>,
    <<"perms:group_read", "gr">>,
    <<"perms:group_write", "gw">>,
    <<"perms:group_execute", "gx">>,
    <<"perms:other_read", "tr">>,
    <<"perms:other_write", "tw">>,
    <<"perms:other_execute", "tx">>,
    <<"perms:special_user_file", "su">>,
    <<"perms:special_other", "sf">>,
    <<"perms:attribute", "xa">>,
    <<"size:major", "df">>,
    <<"size:minor", "ds">>,
    <<"size:number_style", "sn">>,
    <<"size:number_byte", "nb">>,
    <<"size:number_kilo", "nk">>,
    <<"size:number_mega", "nm">>,
    <<"size:number_giga", "ng">>,
    <<"size:number_huge", "nt">>,
    <<"size:unit_style", "sb">>,
    <<"size:unit_byte", "ub">>,
    <<"size:unit_kilo", "uk">>,
    <<"size:unit_mega", "um">>,
    <<"size:unit_giga", "ug">>,
    <<"size:unit_huge", "ut">>,
    <<"users:user_you", "uu">>,
    <<"users:user_other", "un">>,
    <<"users:user_root", "uR">>,
    <<"users:group_yours", "gu">>,
    <<"users:group_other", "gn">>,
    <<"users:group_root", "gR">>,
    <<"links:normal", "lc">>,
    <<"links:multi_link_file", "lm">>,
    <<"git:new", "ga">>,
    <<"git:modified", "gm">>,
    <<"git:deleted", "gd">>,
    <<"git:renamed", "gv">>,
    <<"git:typechange", "gt">>,
    <<"git:ignored", "gi">>,
    <<"git:conflicted", "gc">>,
    <<"git_repo:branch_main", "Gm">>,
    <<"git_repo:branch_other", "Go">>,
    <<"git_repo:git_clean", "Gc">>,
    <<"git_repo:git_dirty", "Gd">>,
    <<"selinux:colon", "Sn">>,
    <<"selinux:user", "Su">>,
    <<"selinux:role", "Sr">>,
    <<"selinux:typ", "St">>,
    <<"selinux:range", "Sl">>,
    <<"file_type:image", "im">>,
    <<"file_type:video", "vi">>,
    <<"file_type:music", "mu">>,
    <<"file_type:lossless", "lo">>,
    <<"file_type:crypto", "cr">>,
    <<"file_type:document", "do">>,
    <<"file_type:compressed", "co">>,
    <<"file_type:temp", "tm">>,
    <<"file_type:compiled", "cm">>,
    <<"file_type:build", "bu">>,
    <<"file_type:source", "sc">>,
    <<"punctuation", "xx">>,
    <<"date", "da">>,
    <<"inode", "in">>,
    <<"blocks", "bl">>,
    <<"header", "hd">>,
    <<"octal", "oc">>,
    <<"flags", "ff">>,
    <<"symlink_path", "lp">>,
    <<"control_char", "cc">>,
    <<"broken_path_overlay", "b0">>,
    <<"broken_symlink", "or">>
>>

EZA_COLORS_MAP == build_map(EZA_COLORS_BASE_MAP, Len(EZA_COLORS_BASE_MAP))

\* the default of the export statement's variable
EzaVarname == "EZA_COLORS"

\* reading clear_builtin and appending reset whenever the key is a boolean
eza_clear_builtin_present(definition) ==
    IF "clear_builtin" \in DOMAIN definition
    THEN IF definition["clear_builtin"].t # "bool"
         THEN [err |-> "DyeSyntaxError", outlist |-> <<>>]
         ELSE [err |-> "none", outlist |-> <<"reset">>]
    ELSE [err |-> "none", outlist |-> <<>>]

\* reading clear_builtin under contextlib.suppress(KeyError): the start of
\* outlist, or the error of a value that is no bool
eza_clear_builtin(definition) ==
    IF "clear_builtin" \in DOMAIN definition
    THEN IF definition["clear_builtin"].t # "bool"
         THEN [err |-> "DyeSyntaxError", outlist |-> <<>>]
         ELSE IF definition["clear_builtin"].b
         THEN [err |-> "none", outlist |-> <<"reset">>]
         ELSE [err |-> "none", outlist |-> <<>>]
    ELSE [err |-> "none", outlist |-> <<>>]

\* the loop over scope.styles from entry i on
RECURSIVE eza_styles(_, _, _)
eza_styles(styles, i, acc) ==
    IF i > Len(styles) \/ acc.err # "none" THEN acc
    ELSE IF truthy(styles[i].style)
    THEN LET r == ls_colors_from_style(styles[i].name, styles[i].style, EZA_COLORS_MAP, TRUE)
         IN  IF r.err # "none"
             THEN [acc EXCEPT !.err = r.err]
             ELSE eza_styles(styles, i + 1, [acc EXCEPT !.outlist = Append(@, r.render)])
    ELSE eza_styles(styles, i + 1, acc)

\* outlist at the end of the loop
eza_outlist(sc) == eza_styles(sc.styles, 1, eza_clear_builtin(sc.definition))

\* Eza.run: prints the export statement
Eza_run(sc) ==
    LET lists == eza_outlist(sc)
    IN  IF lists.err # "none" THEN Failed(lists.err)
        ELSE Outcome("ok", <<>>,
                 <<export_statement(varname(sc.definition, EzaVarname), lists.outlist)>>)

\* ------------------------------------------------------------------------
\* Fzf
\* ------------------------------------------------------------------------

\* the default of the export statement's variable
FzfVarname == "FZF_DEFAULT_OPTS"

HexDigits == <<"0", "1", "2", "3", "4", "5", "6", "7",
               "8", "9", "a", "b", "c", "d", "e", "f">>

\* a channel 0..255 as two lowercase hex digits
hex2(n) == HexDigits[(n \div 16) + 1] \o HexDigits[(n % 16) + 1]

\* ColorTriplet.hex: "#rrggbb"
triplet_hex(t) == "#" \o hex2(t[1]) \o hex2(t[2]) \o hex2(t[3])


\* _fzf_color_from_rich_color without the branch for the 256 color palette
fzf_color_without_eight_bit(color) ==
    CASE color.type = "default" -> "-1"
      [] color.type = "standard" -> str(color.number)
      [] color.type = "truecolor" -> triplet_hex(color.triplet)
      [] OTHER -> ""

\* Fzf._fzf_color_from_rich_color
fzf_color_from_rich_color(color) ==
    CASE color.type = "default" -> "-1"
      [] color.type = "standard" -> str(color.number)
      [] color.type = "eight_bit" -> str(color.number)
      [] color.type = "truecolor" -> triplet_hex(color.triplet)
      [] OTHER -> ""


\* _fzf_attribs_from_style appending in the order rich lists the attributes
fzf_attribs_in_rich_order(style) ==
    "regular"
    \o (IF "bold" \in style.attrs THEN ":bold" ELSE "")
    \o (IF "dim" \in style.attrs THEN ":dim" ELSE "")
    \o (IF "italic" \in style.attrs THEN ":italic" ELSE "")
    \o (IF "underline" \in style.attrs THEN ":underline" ELSE "")
    \o (IF "reverse" \in style.attrs THEN ":reverse" ELSE "")
    \o (IF "strike" \in style.attrs THEN ":strikethrough" ELSE "")

\* Fzf._fzf_attribs_from_style
fzf_attribs_from_style(style) ==
    "regular"
    \o (IF "bold" \in style.attrs THEN ":bold" ELSE "")
    \o (IF "underline" \in style.attrs THEN ":underline" ELSE "")
    \o (IF "reverse" \in style.attrs THEN ":reverse" ELSE "")
    \o (IF "dim" \in style.attrs THEN ":dim" ELSE "")
    \o (IF "italic" \in style.attrs THEN ":italic" ELSE "")
    \o (IF "strike" \in style.attrs THEN ":strikethrough" ELSE "")

\* name_map of _fzf_from_style: the paired names and their fzf keys
fzf_name_map ==
    ("text" :> <<"fg", "bg">>) @@ ("current-line" :> <<"fg+", "bg+">>)
    @@ ("selected-line" :> <<"selected-fg", "selected-bg">>)
    @@ ("preview" :> <<"preview-fg", "preview-bg">>)


\* _fzf_from_style using the background of a direct target key as well
fzf_from_style_with_background(name, style) ==
    LET fg(key) == IF style.color # None
                   THEN <<key \o ":" \o fzf_color_from_rich_color(style.color)
                              \o ":" \o fzf_attribs_from_style(style)>>
                   ELSE <<>>
        bg(key) == IF style.bgcolor # None
                   THEN <<key \o ":" \o fzf_color_from_rich_color(style.bgcolor)>>
                   ELSE <<>>
        fzf_colors == IF name \in DOMAIN fzf_name_map
                      THEN fg(fzf_name_map[name][1]) \o bg(fzf_name_map[name][2])
                      ELSE fg(name) \o bg(name)
    IN  join(",", fzf_colors)

\* Fzf._fzf_from_style
fzf_from_style(name, style) ==
    LET fg(key) == IF style.color # None
                   THEN <<key \o ":" \o fzf_color_from_rich_color(style.color)
                              \o ":" \o fzf_attribs_from_style(style)>>
                   ELSE <<>>
        bg(key) == IF style.bgcolor # None
                   THEN <<key \o ":" \o fzf_color_from_rich_color(style.bgcolor)>>
                   ELSE <<>>
        fzf_colors == IF name \in DOMAIN fzf_name_map
                      THEN fg(fzf_name_map[name][1]) \o bg(fzf_name_map[name][2])
                      ELSE fg(name)
    IN  join(",", fzf_colors)


\* the loop over opts with every boolean taken as a flag
RECURSIVE fzf_optstr_any_bool(_, _)
fzf_optstr_any_bool(opts, i) ==
    IF i > Len(opts) THEN ""
    ELSE LET key == opts[i][1]
             value == opts[i][2]
         IN  (IF value.t = "str" THEN " " \o key \o "='" \o value.s \o "'"
              ELSE IF value.t = "bool" THEN " " \o key
              ELSE "")
             \o fzf_optstr_any_bool(opts, i + 1)

\* the loop over opts from entry i on: the option string
RECURSIVE fzf_optstr(_, _)
fzf_optstr(opts, i) ==
    IF i > Len(opts) THEN ""
    ELSE LET key == opts[i][1]
             value == opts[i][2]
         IN  (IF value.t = "str" THEN " " \o key \o "='" \o value.s \o "'"
              ELSE IF value.t = "bool" /\ value.b THEN " " \o key
              ELSE "")
             \o fzf_optstr(opts, i + 1)

\* the loop over scope.styles: one color string per entry
fzf_colors(styles) == [i \in 1..Len(styles) |-> fzf_from_style(styles[i].name, styles[i].style)]

\* the --color argument
fzf_colorstr(sc) ==
    LET colors == fzf_colors(sc.styles)
        colorbase == IF "colorbase" \in DOMAIN sc.definition
                     THEN sc.definition["colorbase"].s \o ","
                     ELSE ""
    IN  IF colorbase # "" \/ Len(colors) > 0
        THEN " --color='" \o colorbase \o join(",", colors) \o "'"
        ELSE ""

\* Fzf.run: prints the export statement
Fzf_run(sc) ==
    LET opts == IF "opts" \in DOMAIN sc.definition THEN sc.definition["opts"].m ELSE <<>>
    IN  Outcome("ok", <<>>,
            <<"export " \o varname(sc.definition, FzfVarname) \o "=\""
              \o fzf_optstr(opts, 1) \o fzf_colorstr(sc) \o "\"">>)

\* ------------------------------------------------------------------------
\* Iterm
\* ------------------------------------------------------------------------

\* the ANSI colors of rich's default terminal theme, numbers 0..15
ansi_colors ==
    <<<<0, 0, 0>>, <<128, 0, 0>>, <<0, 128, 0>>, <<128, 128, 0>>,
      <<0, 0, 128>>, <<128, 0, 128>>, <<0, 128, 128>>, <<192, 192, 192>>,
      <<128, 128, 128>>, <<255, 0, 0>>, <<0, 255, 0>>, <<255, 255, 0>>,
      <<0, 0, 255>>, <<255, 0, 255>>, <<0, 255, 255>>, <<255, 255, 255>>>>

\* the levels of the 6x6x6 color cube of the 256 color palette
cube_levels == <<0, 95, 135, 175, 215, 255>>

\* the 256 color palette: 16 ANSI colors, the color cube, 24 grays
eight_bit_palette(n) ==
    IF n < 16 THEN ansi_colors[n + 1]
    ELSE IF n < 232
    THEN <<cube_levels[((n - 16) \div 36) + 1],
           cube_levels[(((n - 16) % 36) \div 6) + 1],
           cube_levels[((n - 16) % 6) + 1]>>
    ELSE <<8 + 10 * (n - 232), 8 + 10 * (n - 232), 8 + 10 * (n - 232)>>

\* Color.get_truecolor() with the default theme, as a foreground color
get_truecolor(color) ==
    CASE color.type = "truecolor" -> color.triplet
      [] color.type = "eight_bit" -> eight_bit_palette(color.number)
      [] color.type = "standard" -> ansi_colors[color.number + 1]
      [] color.type = "default" -> <<0, 0, 0>>

\* Iterm._iterm_profile: the lines it appends
iterm_profile(sc) ==
    IF "profile" \in DOMAIN sc.definition
    THEN <<"builtin echo -en \"\\e]1337;" \o "SetProfile=" \o sc.definition["profile"].s
           \o "\\a\"">>
    ELSE <<>>


\* _iterm_tab sending the brightness commands for every foreground
iterm_tab_always_brightness(sc) ==
    IF "tab" \notin style_names(sc.styles) THEN [err |-> "none", lines |-> <<>>]
    ELSE LET style == sc.styles[style_of(sc.styles, "tab")].style
         IN  IF style.color = None
             THEN [err |-> "AttributeError", lines |-> <<>>]
             ELSE LET clr == get_truecolor(style.color)
                  IN  [err |-> "none", lines |->
                        <<"builtin echo -en \"\\e]6;1;bg;red;brightness;" \o str(clr[1]) \o "\\a\"",
                          "builtin echo -en \"\\e]6;1;bg;green;brightness;" \o str(clr[2]) \o "\\a\"",
                          "builtin echo -en \"\\e]6;1;bg;blue;brightness;" \o str(clr[3]) \o "\\a\"">>]

\* Iterm._iterm_tab: the lines it appends, or the error that ends it
iterm_tab(sc) ==
    IF "tab" \notin style_names(sc.styles) THEN [err |-> "none", lines |-> <<>>]
    ELSE LET style == sc.styles[style_of(sc.styles, "tab")].style
         IN  IF style.color = None
             \* style.color.is_default on None
             THEN [err |-> "AttributeError", lines |-> <<>>]
             ELSE IF style.color.type = "default"
             THEN [err |-> "none", lines |-> <<"builtin echo -en \"\\e]6;1;bg;*;default\\a\"">>]
             ELSE LET clr == get_truecolor(style.color)
                  IN  [err |-> "none", lines |->
                        <<"builtin echo -en \"\\e]6;1;bg;red;brightness;" \o str(clr[1]) \o "\\a\"",
                          "builtin echo -en \"\\e]6;1;bg;green;brightness;" \o str(clr[2]) \o "\\a\"",
                          "builtin echo -en \"\\e]6;1;bg;blue;brightness;" \o str(clr[3]) \o "\\a\"">>]

\* Iterm._iterm_render_style
iterm_render_style(sc, style_name, iterm_key) ==
    IF style_name \notin style_names(sc.styles) THEN [err |-> "none", lines |-> <<>>]
    ELSE LET style == sc.styles[style_of(sc.styles, style_name)].style
         IN  IF style.color = None
             \* style.color.get_truecolor on None
             THEN [err |-> "AttributeError", lines |-> <<>>]
             ELSE LET clr == get_truecolor(style.color)
                  IN  [err |-> "none", lines |->
                        <<"builtin echo -en \"\\e]1337;" \o "SetColors=" \o iterm_key \o "="
                          \o hex2(clr[1]) \o hex2(clr[2]) \o hex2(clr[3]) \o "\\a\"">>]

CURSOR_MAP ==
    ("block" :> "0") @@ ("box" :> "0") @@ ("vertical_bar" :> "1") @@ ("vertical" :> "1")
    @@ ("bar" :> "1") @@ ("pipe" :> "1") @@ ("underline" :> "2")

\* Iterm._iterm_cursor: the cursor shape, then the cursor color
iterm_cursor(sc) ==
    LET cursor == IF "cursor" \in DOMAIN sc.definition THEN sc.definition["cursor"].s ELSE ""
        shape == IF cursor # ""
                 THEN IF cursor = "profile"
                      THEN [err |-> "none", lines |-> <<"builtin echo -en \"\\e[0q\"">>]
                      ELSE IF cursor \in DOMAIN CURSOR_MAP
                      THEN [err |-> "none", lines |->
                             <<"builtin echo -en \"\\e]1337;" \o "CursorShape="
                               \o CURSOR_MAP[cursor] \o "\\a\"">>]
                      ELSE [err |-> "DyeSyntaxError", lines |-> <<>>]
                 ELSE [err |-> "none", lines |-> <<>>]
        color == iterm_render_style(sc, "cursor", "curbg")
    IN  IF shape.err # "none" THEN shape
        ELSE IF color.err # "none" THEN color
        ELSE [err |-> "none", lines |-> shape.lines \o color.lines]

\* the steps of Iterm.run in their order; the first error ends the run
RECURSIVE iterm_steps(_, _)
iterm_steps(steps, i) ==
    IF i > Len(steps) THEN [err |-> "none", lines |-> <<>>]
    ELSE IF steps[i].err # "none" THEN steps[i]
    ELSE LET rest == iterm_steps(steps, i + 1)
         IN  IF rest.err # "none" THEN rest
             ELSE [err |-> "none", lines |-> steps[i].lines \o rest.lines]


\* the lines appended before the first step that fails
RECURSIVE iterm_appended(_, _)
iterm_appended(steps, i) ==
    IF i > Len(steps) \/ steps[i].err # "none" THEN <<>>
    ELSE steps[i].lines \o iterm_appended(steps, i + 1)

\* Iterm.run with the cursor step ahead of the foreground and background
Iterm_run_cursor_early(sc) ==
    LET output == iterm_steps(<<[err |-> "none", lines |-> iterm_profile(sc)],
                                iterm_tab(sc),
                                iterm_cursor(sc),
                                iterm_render_style(sc, "foreground", "fg"),
                                iterm_render_style(sc, "background", "bg")>>, 1)
    IN  IF output.err # "none" THEN Failed(output.err)
        ELSE Outcome("ok", <<join("\n", output.lines)>>, <<>>)

\* Iterm.run handing over each line as it is appended
Iterm_run_streaming(sc) ==
    LET steps == <<[err |-> "none", lines |-> iterm_profile(sc)],
                   iterm_tab(sc),
                   iterm_render_style(sc, "foreground", "fg"),
                   iterm_render_style(sc, "background", "bg"),
                   iterm_cursor(sc)>>
        output == iterm_steps(steps, 1)
    IN  IF output.err # "none"
        THEN Outcome(output.err, <<>>, iterm_appended(steps, 1))
        ELSE Outcome("ok", <<>>, output.lines)

\* Iterm.run: returns the lines joined by newlines
Iterm_run(sc) ==
    LET output == iterm_steps(<<[err |-> "none", lines |-> iterm_profile(sc)],
                                iterm_tab(sc),
                                iterm_render_style(sc, "foreground", "fg"),
                                iterm_render_style(sc, "background", "bg"),
                                iterm_cursor(sc)>>, 1)
    IN  IF output.err # "none" THEN Failed(output.err)
        ELSE Outcome("ok", <<join("\n", output.lines)>>, <<>>)

\* ------------------------------------------------------------------------
\* The inputs of the model: agents, configuration values, names and styles
\* ------------------------------------------------------------------------


\* ------------------------------------------------------------------------
\* AgentBase: the registry of agent classes
\* ------------------------------------------------------------------------

UpperLetters == <<"A", "B", "C", "D", "E", "F", "G", "H", "I", "J", "K", "L", "M",
                  "N", "O", "P", "Q", "R", "S", "T", "U", "V", "W", "X", "Y", "Z">>

LowerLetters == <<"a", "b", "c", "d", "e", "f", "g", "h", "i", "j", "k", "l", "m",
                  "n", "o", "p", "q", "r", "s", "t", "u", "v", "w", "x", "y", "z">>

\* the character classes [A-Z], [a-z] and [a-z\d] of the two patterns
is_upper(c) == \E i \in 1..26 : UpperLetters[i] = c

is_lower(c) == \E i \in 1..26 : LowerLetters[i] = c

is_lower_or_digit(c) == is_lower(c) \/ is_digit_char(c)

\* str.lower() of one character
lower_char(c) ==
    IF is_upper(c) THEN LowerLetters[CHOOSE i \in 1..26 : UpperLetters[i] = c] ELSE c

\* the first position from i on that holds no uppercase letter
RECURSIVE upper_run_end(_, _)
upper_run_end(name, i) ==
    IF i > Len(name) \/ ~is_upper(name[i]) THEN i ELSE upper_run_end(name, i + 1)

\* re.sub(r"([A-Z]+)([A-Z][a-z])", r"\1_\2", name) from position i on: a run
\* of two or more uppercase letters before a lowercase letter is split ahead
\* of its last letter; the scan goes on behind each match
RECURSIVE sub_upper_run(_, _)
sub_upper_run(name, i) ==
    IF i > Len(name) THEN <<>>
    ELSE IF ~is_upper(name[i]) THEN <<name[i]>> \o sub_upper_run(name, i + 1)
    ELSE LET q == upper_run_end(name, i)
         IN  IF q - i >= 2 /\ q <= Len(name) /\ is_lower(name[q])
             THEN SubSeq(name, i, q - 2) \o <<"_">> \o SubSeq(name, q - 1, q)
                  \o sub_upper_run(name, q + 1)
             ELSE SubSeq(name, i, q - 1) \o sub_upper_run(name, q)

\* re.sub(r"([a-z\d])([A-Z])", r"\1_\2", name) from position i on
RECURSIVE sub_lower_upper(_, _)
sub_lower_upper(name, i) ==
    IF i > Len(name) THEN <<>>
    ELSE IF i < Len(name) /\ is_lower_or_digit(name[i]) /\ is_upper(name[i + 1])
    THEN <<name[i], "_", name[i + 1]>> \o sub_lower_upper(name, i + 2)
    ELSE <<name[i]>> \o sub_lower_upper(name, i + 1)

\* name.replace("-", "_")
replace_hyphens(name) == [i \in 1..Len(name) |-> IF name[i] = "-" THEN "_" ELSE name[i]]


\* _name_of that only lowers the characters
name_of_lowered_only(name) == [i \in 1..Len(name) |-> lower_char(name[i])]

\* AgentBase._name_of, on the characters of the name
name_of(name) ==
    LET split == sub_lower_upper(sub_upper_run(name, 1), 1)
        underscored == replace_hyphens(split)
    IN  [i \in 1..Len(underscored) |-> lower_char(underscored[i])]


\* the class statement of a new agent: __init_subclass__ enters the class
\* under its derived name
register(map, name) == (concat(name_of(name)) :> concat(name)) @@ map

\* the registry after the first i class statements of a sequence
RECURSIVE registered(_, _)
registered(classes, i) ==
    IF i = 0 THEN <<>> ELSE register(registered(classes, i - 1), classes[i])

\* the agent classes of the package, in the order they are defined
AgentClasses ==
    << <<"E", "z", "a">>, <<"F", "z", "f">>, <<"G", "n", "u", "L", "s">>,
       <<"I", "t", "e", "r", "m">> >>

\* the registry names of the four agents
Agents == {"gnu_ls", "eza", "fzf", "iterm"}

\* the configuration keys an agent reads
KeysOf(agent) ==
    CASE agent = "gnu_ls" -> {"clear_builtin", "environment_variable"}
      [] agent = "eza" -> {"clear_builtin", "environment_variable"}
      [] agent = "fzf" -> {"opts", "colorbase", "environment_variable"}
      [] agent = "iterm" -> {"profile", "cursor"}

\* the values a key of the configuration is given
ValuesOf(key) ==
    CASE key = "clear_builtin" -> {BoolVal(TRUE), BoolVal(FALSE), StrVal("yes"), IntVal(1)}
      [] key = "environment_variable" -> {StrVal("MY_COLORS")}
      [] key = "opts" ->
            {Mapping(<<>>),
             Mapping(<< <<"--height", StrVal("40%")>>, <<"--reverse", BoolVal(TRUE)>>,
                        <<"--no-x", BoolVal(FALSE)>> >>),
             Mapping(<< <<"--border", BoolVal(TRUE)>>, <<"--tabstop", IntVal(4)>> >>)}
      [] key = "colorbase" -> {StrVal("dark")}
      [] key = "profile" -> {StrVal("dark")}
      [] key = "cursor" -> {StrVal("profile"), StrVal("vertical"), StrVal("underline"),
                            StrVal("triangle"), StrVal("")}

\* the style names declared in a scope of an agent: friendly names, native
\* codes, names the agent does not know
NamesOf(agent) ==
    CASE agent = "gnu_ls" -> {"directory", "di", "*.txt"}
      [] agent = "eza" -> {"filekinds:directory", "di", "*.txt"}
      [] agent = "fzf" -> {"text", "preview", "hl"}
      [] agent = "iterm" -> {"tab", "foreground", "background", "cursor"}

EmptyStyle == Style(None, None, {})

\* the styles declared in a scope
StylePool ==
    {EmptyStyle,
     Style(Default, EightBit(200), {"bold"}),
     Style(Standard(9), None, {"underline"}),
     Style(TrueColor(17, 34, 51), Standard(4), {"bold"}),
     Style(None, Standard(4), {})}

\* the colors of the styles passed to the helper directly
ColorPool ==
    {Default, Standard(7), Standard(8), EightBit(200), TrueColor(0, 128, 255)}

AllStyles ==
    {Style(c, b, a) : c \in ColorPool \cup {None}, b \in ColorPool \cup {None},
                      a \in SUBSET AttributeSet}

\* the names and maps passed to the helper directly
HelperNames == {"directory", "di", "*.txt"}

HelperMaps == {"ls", "eza"}

map_of(m) == IF m = "ls" THEN LS_COLORS_MAP ELSE EZA_COLORS_MAP

\* ------------------------------------------------------------------------
\* Dye: the application around the agents.  The text of an environment
\* variable or of an argument is a sequence of tokens: a word, ":" or "=".
\* ------------------------------------------------------------------------

EXIT_SUCCESS == 0

EXIT_ERROR == 1

EXIT_USAGE == 2

OUTPUT_ELEMENTS ==
    <<(<<"usage_", "args">>), <<"usage_", "groups">>, <<"usage_", "help">>,
      <<"usage_", "metavar">>, <<"usage_", "prog">>, <<"usage_", "syntax">>,
      <<"usage_", "text">>, <<"ui_", "border">>, <<"ui_", "column_header">>,
      <<"error_", "progname">>, <<"error_", "text">>, <<"debug_", "label">>,
      <<"debug_", "text">>, <<"comment_", "begin">>, <<"comment_", "text">>>>

\* the position of the first sep in text, 0 when there is none
find(text, sep) ==
    IF \E i \in 1..Len(text) : text[i] = sep
    THEN CHOOSE i \in 1..Len(text) : text[i] = sep /\ \A j \in 1..(i - 1) : text[j] # sep
    ELSE 0

\* text.split(sep)
RECURSIVE split(_, _)
split(text, sep) ==
    IF find(text, sep) = 0 THEN <<text>>
    ELSE <<SubSeq(text, 1, find(text, sep) - 1)>>
         \o split(SubSeq(text, find(text, sep) + 1, Len(text)), sep)

\* text.split(sep, 1)
split_once(text, sep) ==
    IF find(text, sep) = 0 THEN <<text>>
    ELSE <<SubSeq(text, 1, find(text, sep) - 1),
           SubSeq(text, find(text, sep) + 1, Len(text))>>

\* the loop of _parse_colorspec over the clauses, colors being the
\* benedict built so far
RECURSIVE parse_clauses(_, _)
parse_clauses(colors, clauses) ==
    IF Len(clauses) = 0 THEN colors
    ELSE LET parts == split_once(clauses[1], "=")
         IN parse_clauses(IF Len(parts) = 2 /\ parts[1] \in elements(OUTPUT_ELEMENTS)
                          THEN (parts[1] :> parts[2]) @@ colors
                          ELSE colors,
                          Tail(clauses))

parse_colorspec(colorspec) == parse_clauses(<<>>, split(colorspec, ":"))

\* os.environ[name] raises no KeyError
is_set(env, name) == name \in DOMAIN env

\* the transfer of the usage elements into RichHelpFormatter.styles
usage_styles(colors) ==
    [key \in {<<"argparse.">> \o Tail(element) :
                 element \in {e \in DOMAIN colors : e[1] = "usage_"}}
        |-> colors[<<"usage_">> \o Tail(key)]]

set_output_elements_colors_first(env) ==
    LET colors == IF is_set(env, "DYE_COLORS") /\ env["DYE_COLORS"] # <<>>
                  THEN parse_colorspec(env["DYE_COLORS"])
                  ELSE <<>>
    IN [output_elements |-> colors, styles |-> usage_styles(colors)]

\* Dye.set_output_elements: the new output_elements and the new
\* RichHelpFormatter.styles
set_output_elements(env) ==
    LET colors == IF is_set(env, "NO_COLOR") /\ env["NO_COLOR"] # <<>> THEN <<>>
                  ELSE IF is_set(env, "DYE_COLORS") /\ env["DYE_COLORS"] # <<>>
                  THEN parse_colorspec(env["DYE_COLORS"])
                  ELSE <<>>
    IN [output_elements |-> colors, styles |-> usage_styles(colors)]


\* a style left in RichHelpFormatter.styles by earlier code
EarlierStyles == (<<"argparse.", "text">> :> <<"#333333">>)

\* the arguments before a command line is parsed; an option whose value is
\* None is left out of the record
NoArgs == [help |-> FALSE, version |-> FALSE]

\* the attribute of the arguments is there and is not None
given(a, name) == name \in DOMAIN a

\* what a method of the application hands over: a value, or an exception
Returned(value) == [status |-> "returned", value |-> value]

Raised(kind, message) == [status |-> kind, message |-> message]

\* the files that can be opened: a theme, a pattern with scopes and a text
\* style, and a pattern with one style that is not text and no scope
Files == {<<"theme.toml">>, <<"pattern.toml">>, <<"bare.toml">>}

\* Theme(), and the theme Theme.load makes of an open file
EmptyTheme == [made_by |-> "Theme()", filename |-> <<>>]

Theme_load(fname) == [made_by |-> "Theme.load", filename |-> fname]

\* theme=None
NoTheme == [made_by |-> "None", filename |-> <<>>]

\* Pattern(), Pattern.loads(None, theme) and the pattern Pattern.load makes
\* of an open file
EmptyPattern == [made_by |-> "Pattern()", filename |-> <<>>, theme |-> NoTheme]

Pattern_loads_none(theme) ==
    [made_by |-> "Pattern.loads(None)", filename |-> <<>>, theme |-> theme]

Pattern_load(fname, theme) ==
    [made_by |-> "Pattern.load", filename |-> fname, theme |-> theme]

file_name_environ_first(a, option, env, variable) ==
    IF is_set(env, variable) /\ env[variable] # <<>> THEN env[variable]
    ELSE IF given(a, option) THEN a[option]
    ELSE <<>>

\* fname after the lookup of the command-line option and the environment
\* variable; the empty text when neither gives one (fname is None)
file_name(a, option, env, variable) ==
    IF given(a, option) /\ a[option] # <<>> THEN a[option]
    ELSE IF is_set(env, variable) THEN env[variable]
    ELSE <<>>

\* Dye.load_theme_from_args
load_theme_from_args(a, required, env) ==
    LET fname == file_name(a, "theme_file", env, "DYE_THEME_FILE")
    IN IF required /\ a.no_theme
       THEN Raised("DyeError", <<"a theme is required and you specified --no-theme">>)
       ELSE IF ~required /\ a.no_theme THEN Returned(EmptyTheme)
       ELSE IF fname # <<>>
            THEN IF fname \in Files THEN Returned(Theme_load(fname))
                 ELSE Raised("FileNotFoundError", <<"No such file or directory">>)
       ELSE IF required THEN Raised("DyeError", <<"no theme specified">>)
       ELSE Returned(EmptyTheme)

\* Dye.load_pattern_from_args; the arguments of a command without
\* --no-pattern have no such attribute and get it set to false
load_pattern_from_args(a, required, theme, env) ==
    LET no_pattern == IF "no_pattern" \in DOMAIN a THEN a.no_pattern ELSE FALSE
        fname == file_name(a, "pattern_file", env, "DYE_PATTERN_FILE")
    IN IF required /\ no_pattern
       THEN Raised("DyeError", <<"a pattern is required and you specified --no-pattern">>)
       ELSE IF ~required /\ no_pattern THEN Returned(Pattern_loads_none(theme))
       ELSE IF fname # <<>>
            THEN IF fname \in Files THEN Returned(Pattern_load(fname, theme))
                 ELSE Raised("FileNotFoundError", <<"No such file or directory">>)
       ELSE IF required THEN Raised("DyeError", <<"no pattern specified">>)
       ELSE Returned(EmptyPattern)

\* list(pattern.scopes.keys()): the scopes in the order the pattern file
\* declares them
pattern_scopes(pattern) ==
    IF pattern.filename = <<"pattern.toml">>
    THEN <<(<<"ls">>), <<"finder">>, <<"term">>>>
    ELSE <<>>

apply_scopes_skipping_unknown(to_apply, scopes, agents_run) ==
    [outcome |-> Returned(EXIT_SUCCESS),
     agents_run |-> agents_run \o SelectSeq(to_apply, LAMBDA name : name \in elements(scopes))]

\* the loop of command_apply over to_apply, agents_run being the scopes
\* whose run_agent was called so far
RECURSIVE apply_scopes(_, _, _)
apply_scopes(to_apply, scopes, agents_run) ==
    IF Len(to_apply) = 0
    THEN [outcome |-> Returned(EXIT_SUCCESS), agents_run |-> agents_run]
    ELSE IF to_apply[1] \notin elements(scopes)
    THEN [outcome |-> Raised("DyeError", to_apply[1] \o <<": no such scope">>),
          agents_run |-> agents_run]
    ELSE apply_scopes(Tail(to_apply), scopes, Append(agents_run, to_apply[1]))

\* Dye.command_apply: what it hands over and the scopes whose agent it ran
command_apply(a, env) ==
    LET theme == load_theme_from_args(a, FALSE, env)
        pattern == load_pattern_from_args(a, TRUE, theme.value, env)
    IN IF theme.status # "returned" THEN [outcome |-> theme, agents_run |-> <<>>]
       ELSE IF pattern.status # "returned" THEN [outcome |-> pattern, agents_run |-> <<>>]
       ELSE apply_scopes(IF given(a, "scope") /\ a.scope # <<>>
                         THEN split(a.scope, ",")
                         ELSE pattern_scopes(pattern.value),
                         pattern_scopes(pattern.value), <<>>)

\* the style names a theme or a pattern file declares
declared_styles(fname) ==
    IF fname \in {<<"theme.toml">>, <<"pattern.toml">>} THEN {"text"}
    ELSE IF fname = <<"bare.toml">> THEN {"directory"}
    ELSE {}

\* the keys of pattern.styles: the styles of the pattern and of its theme
pattern_styles(pattern) ==
    declared_styles(pattern.filename) \cup declared_styles(pattern.theme.filename)

\* Dye.command_preview: what it hands over and what it prints
command_preview(a, env) ==
    LET theme == load_theme_from_args(a, FALSE, env)
        pattern == load_pattern_from_args(a, FALSE, theme.value, env)
    IN IF theme.status # "returned" THEN [outcome |-> theme, stdout |-> <<>>]
       ELSE IF pattern.status # "returned" THEN [outcome |-> pattern, stdout |-> <<>>]
       ELSE IF declared_styles(theme.value.filename) = {} /\ pattern_styles(pattern.value) = {}
       THEN [outcome |-> Raised("DyeError", <<"nothing to preview">>), stdout |-> <<>>]
       ELSE IF "text" \notin pattern_styles(pattern.value)
       THEN [outcome |-> Raised("DyeSyntaxError", <<"no 'text' style defined">>),
             stdout |-> <<>>]
       ELSE [outcome |-> Returned(EXIT_SUCCESS), stdout |-> <<(<<"preview">>)>>]

\* Dye.command_print
command_print(a, env) ==
    LET theme == load_theme_from_args(a, FALSE, env)
        pattern == load_pattern_from_args(a, FALSE, theme.value, env)
    IN IF theme.status # "returned" THEN [outcome |-> theme, stdout |-> <<>>]
       ELSE IF pattern.status # "returned" THEN [outcome |-> pattern, stdout |-> <<>>]
       ELSE [outcome |-> Returned(EXIT_SUCCESS), stdout |-> <<(<<"string">>)>>]

\* Dye.command_agents
command_agents(a) == [outcome |-> Returned(EXIT_SUCCESS), stdout |-> <<(<<"agents">>)>>]

\* the directories that exist and hold a themes directory
Directories == {<<"dyedir">>}

\* Dye.command_themes
command_themes(a, env) ==
    IF ~is_set(env, "DYE_DIR")
    THEN [outcome |-> Raised("DyeError", <<"the DYE_DIR environment variable must be set">>),
          stdout |-> <<>>]
    ELSE IF env["DYE_DIR"] \notin Directories
    THEN [outcome |-> Raised("DyeError", env["DYE_DIR"] \o <<"/themes", ": is not a directory">>),
          stdout |-> <<>>]
    ELSE [outcome |-> Returned(EXIT_SUCCESS), stdout |-> <<(<<"themes">>)>>]

\* the command dispatch runs for args.command, with the scopes whose agent
\* ran
run_command(a, env) ==
    CASE a.command = <<"apply">> -> [stdout |-> <<>>] @@ command_apply(a, env)
      [] a.command = <<"preview">> -> [agents_run |-> <<>>] @@ command_preview(a, env)
      [] a.command = <<"print">> -> [agents_run |-> <<>>] @@ command_print(a, env)
      [] a.command = <<"agents">> -> [agents_run |-> <<>>] @@ command_agents(a)
      [] a.command = <<"themes">> -> [agents_run |-> <<>>] @@ command_themes(a, env)

Commands == {<<"apply">>, <<"preview">>, <<"print">>, <<"agents">>, <<"themes">>}

\* Dye.dispatch: what it hands over, and what went to standard output and
\* to standard error
dispatch(prog, a, env) ==
    IF a.help \/ (given(a, "command") /\ a.command = <<"help">>)
    THEN [outcome |-> Returned(EXIT_SUCCESS), stdout |-> <<(<<"usage">>)>>,
          stderr |-> <<>>, agents_run |-> <<>>]
    ELSE IF a.version
    THEN [outcome |-> Returned(EXIT_SUCCESS), stdout |-> <<prog \o <<" ", "version">>>>,
          stderr |-> <<>>, agents_run |-> <<>>]
    ELSE IF ~given(a, "command") \/ a.command = <<>>
    THEN [outcome |-> Returned(EXIT_USAGE), stdout |-> <<>>,
          stderr |-> <<(<<"usage">>)>>, agents_run |-> <<>>]
    ELSE IF a.command \in Commands
    THEN LET ran == run_command(a, env)
         IN IF ran.outcome.status \in {"DyeError", "DyeSyntaxError"}
            THEN [outcome |-> Returned(EXIT_ERROR), stdout |-> ran.stdout,
                  stderr |-> <<prog \o <<": ">> \o ran.outcome.message>>,
                  agents_run |-> ran.agents_run]
            ELSE [outcome |-> ran.outcome, stdout |-> ran.stdout, stderr |-> <<>>,
                  agents_run |-> ran.agents_run]
    ELSE [outcome |-> Returned(EXIT_USAGE), stdout |-> <<>>,
          stderr |-> <<prog \o <<": ">> \o a.command \o <<": unknown command">>>>,
          agents_run |-> <<>>]

NotStarted == [status |-> "none"]

\* the application as constructed, nothing run
IdleApplication ==
    /\ environ = <<>>
    /\ output_elements = <<>>
    /\ formatter_styles = EarlierStyles
    /\ args = NoArgs
    /\ finished = NotStarted

\* ------------------------------------------------------------------------
\* The state machine
\* ------------------------------------------------------------------------

NoResult == Outcome("none", <<>>, <<>>)

NewScopeOf(agent) == [agent |-> agent, definition |-> <<>>, styles |-> <<>>]

NoCall == [phase |-> "idle", name |-> "", style |-> EmptyStyle, mapp |-> "ls",
           allow_unknown |-> FALSE,
           ret |-> [err |-> "none", mapname |-> "", render |-> ""]]

Init ==
    /\ scope \in {NewScopeOf(a) : a \in Agents}
    /\ result = NoResult
    /\ call = NoCall
    /\ runs = 0
    /\ classmap = registered(AgentClasses, Len(AgentClasses))
    /\ defined = AgentClasses
    /\ IdleApplication

\* the pattern declares a configuration key of the scope
SetKey(key, value) ==
    /\ result = NoResult
    /\ key \in KeysOf(scope.agent)
    /\ key \notin DOMAIN scope.definition
    /\ scope' = [scope EXCEPT !.definition = (key :> value) @@ @]
    /\ UNCHANGED <<result, call, runs, registry, application>>

\* the pattern declares a style of the scope
AddStyle(name, style) ==
    /\ result = NoResult
    /\ Len(scope.styles) < MaxStyles
    /\ name \in NamesOf(scope.agent)
    /\ name \notin style_names(scope.styles)
    /\ scope' = [scope EXCEPT !.styles = Append(@, [name |-> name, style |-> style])]
    /\ UNCHANGED <<result, call, runs, registry, application>>

RunGnuLs ==
    /\ scope.agent = "gnu_ls"
    /\ runs < MaxRuns
    /\ result' = GnuLs_run(scope)
    /\ runs' = runs + 1
    /\ UNCHANGED <<scope, call, registry, application>>

RunEza ==
    /\ scope.agent = "eza"
    /\ runs < MaxRuns
    /\ result' = Eza_run(scope)
    /\ runs' = runs + 1
    /\ UNCHANGED <<scope, call, registry, application>>

RunFzf ==
    /\ scope.agent = "fzf"
    /\ runs < MaxRuns
    /\ result' = Fzf_run(scope)
    /\ runs' = runs + 1
    /\ UNCHANGED <<scope, call, registry, application>>

RunIterm ==
    /\ scope.agent = "iterm"
    /\ runs < MaxRuns
    /\ result' = Iterm_run(scope)
    /\ runs' = runs + 1
    /\ UNCHANGED <<scope, call, registry, application>>

\* the scope is discarded after its agent ran; the next scope is declared
NextScope(agent) ==
    /\ result # NoResult
    /\ scope' = NewScopeOf(agent)
    /\ result' = NoResult
    /\ runs' = 0
    /\ UNCHANGED <<call, registry, application>>

Next ==
    \/ \E a \in Agents : \E key \in KeysOf(a) : \E value \in ValuesOf(key) : SetKey(key, value)
    \/ \E a \in Agents : \E name \in NamesOf(a) : \E style \in StylePool : AddStyle(name, style)
    \/ RunGnuLs
    \/ RunEza
    \/ RunFzf
    \/ RunIterm
    \/ \E a \in Agents : NextScope(a)

Spec == Init /\ [][Next]_vars

\* ------------------------------------------------------------------------
\* The helper called on its own, over all styles
\* ------------------------------------------------------------------------

InitHelper ==
    /\ scope = NewScopeOf("gnu_ls")
    /\ result = NoResult
    /\ call = NoCall
    /\ runs = 0
    /\ classmap = registered(AgentClasses, Len(AgentClasses))
    /\ defined = AgentClasses
    /\ IdleApplication

\* a caller passes its arguments
ChooseArguments ==
    /\ call.phase = "idle"
    /\ \E name \in HelperNames : \E style \in AllStyles : \E mapp \in HelperMaps :
         \E allow_unknown \in BOOLEAN :
           call' = [NoCall EXCEPT !.phase = "called", !.name = name, !.style = style,
                                 !.mapp = mapp, !.allow_unknown = allow_unknown]
    /\ UNCHANGED <<scope, result, runs, registry, application>>

\* the call itself
CallHelper ==
    /\ call.phase = "called"
    /\ call' = [call EXCEPT !.phase = "returned",
                            !.ret = ls_colors_from_style(call.name, call.style,
                                                         map_of(call.mapp), call.allow_unknown)]
    /\ UNCHANGED <<scope, result, runs, registry, application>>

\* the caller takes the result
ReturnHelper ==
    /\ call.phase = "returned"
    /\ call' = NoCall
    /\ UNCHANGED <<scope, result, runs, registry, application>>

NextHelper ==
    \/ ChooseArguments
    \/ CallHelper
    \/ ReturnHelper

SpecHelper == InitHelper /\ [][NextHelper]_vars


\* ------------------------------------------------------------------------
\* The methods of Fzf called on their own
\* ------------------------------------------------------------------------

\* the names passed to _fzf_from_style: the four paired names, a direct key
FzfHelperNames == {"text", "current-line", "selected-line", "preview", "hl"}

\* the colors passed to _fzf_color_from_rich_color
FzfColors ==
    {Default} \cup {Standard(n) : n \in 0..15}
    \cup {EightBit(n) : n \in {0, 16, 200, 255}}
    \cup {TrueColor(17, 34, 51), TrueColor(0, 128, 255), TrueColor(255, 255, 255),
          TrueColor(0, 0, 0)}

\* the colors of the styles passed to _fzf_from_style
FzfStyleColors == {Default, Standard(9), EightBit(200), TrueColor(17, 34, 51)}

\* the styles passed to _fzf_from_style and _fzf_attribs_from_style
FzfStyles ==
    {Style(c, b, a) : c \in FzfStyleColors \cup {None}, b \in FzfStyleColors \cup {None},
                      a \in SUBSET AttributeSet}

NoFzfCall == [phase |-> "idle", method |-> "", name |-> "", style |-> EmptyStyle,
              color |-> Default, ret |-> ""]

InitFzf ==
    /\ scope = NewScopeOf("fzf")
    /\ result = NoResult
    /\ call = NoFzfCall
    /\ runs = 0
    /\ classmap = registered(AgentClasses, Len(AgentClasses))
    /\ defined = AgentClasses
    /\ IdleApplication

\* Fzf.run passes a name and its style to _fzf_from_style
ChooseFzfFromStyle ==
    /\ call.phase = "idle"
    /\ \E name \in FzfHelperNames : \E style \in FzfStyles :
         call' = [NoFzfCall EXCEPT !.phase = "called", !.method = "_fzf_from_style",
                                    !.name = name, !.style = style]
    /\ UNCHANGED <<scope, result, runs, registry, application>>

\* a color is passed to _fzf_color_from_rich_color
ChooseFzfColor ==
    /\ call.phase = "idle"
    /\ \E color \in FzfColors :
         call' = [NoFzfCall EXCEPT !.phase = "called",
                                    !.method = "_fzf_color_from_rich_color",
                                    !.color = color]
    /\ UNCHANGED <<scope, result, runs, registry, application>>

\* a style is passed to _fzf_attribs_from_style
ChooseFzfAttribs ==
    /\ call.phase = "idle"
    /\ \E style \in FzfStyles :
         call' = [NoFzfCall EXCEPT !.phase = "called",
                                    !.method = "_fzf_attribs_from_style",
                                    !.style = style]
    /\ UNCHANGED <<scope, result, runs, registry, application>>

CallFzfFromStyle ==
    /\ call.phase = "called"
    /\ call.method = "_fzf_from_style"
    /\ call' = [call EXCEPT !.phase = "returned",
                            !.ret = fzf_from_style(call.name, call.style)]
    /\ UNCHANGED <<scope, result, runs, registry, application>>

CallFzfColor ==
    /\ call.phase = "called"
    /\ call.method = "_fzf_color_from_rich_color"
    /\ call' = [call EXCEPT !.phase = "returned",
                            !.ret = fzf_color_from_rich_color(call.color)]
    /\ UNCHANGED <<scope, result, runs, registry, application>>

CallFzfAttribs ==
    /\ call.phase = "called"
    /\ call.method = "_fzf_attribs_from_style"
    /\ call' = [call EXCEPT !.phase = "returned",
                            !.ret = fzf_attribs_from_style(call.style)]
    /\ UNCHANGED <<scope, result, runs, registry, application>>

\* the caller takes the string
ReturnFzf ==
    /\ call.phase = "returned"
    /\ call' = NoFzfCall
    /\ UNCHANGED <<scope, result, runs, registry, application>>

NextFzf ==
    \/ ChooseFzfFromStyle
    \/ ChooseFzfColor
    \/ ChooseFzfAttribs
    \/ CallFzfFromStyle
    \/ CallFzfColor
    \/ CallFzfAttribs
    \/ ReturnFzf

SpecFzf == InitFzf /\ [][NextFzf]_vars

\* ------------------------------------------------------------------------
\* Definitions shared by the properties
\* ------------------------------------------------------------------------


\* ------------------------------------------------------------------------
\* Agent classes defined one after another
\* ------------------------------------------------------------------------

\* the names of the classes that are defined
ClassNames ==
    {<<"G", "n", "u", "L", "s">>, <<"G", "N", "U", "L", "s">>, <<"E", "z", "a">>,
     <<"F", "z", "f">>, <<"I", "t", "e", "r", "m">>, <<"S", "h", "e", "l", "l">>,
     <<"L", "s", "C", "o", "l", "o", "r", "s">>,
     <<"E", "n", "v", "i", "r", "o", "n", "m", "e", "n", "t",
       "V", "a", "r", "i", "a", "b", "l", "e", "s">>}

InitRegistry ==
    /\ scope = NewScopeOf("gnu_ls")
    /\ result = NoResult
    /\ call = NoCall
    /\ runs = 0
    /\ classmap = <<>>
    /\ defined = <<>>
    /\ IdleApplication

\* a class statement with AgentBase among the bases
DefineClass ==
    /\ Len(defined) < MaxClasses
    /\ \E name \in ClassNames :
         /\ \A i \in 1..Len(defined) : defined[i] # name
         /\ classmap' = register(classmap, name)
         /\ defined' = Append(defined, name)
    /\ UNCHANGED <<scope, result, call, runs, application>>

NextRegistry == DefineClass

SpecRegistry == InitRegistry /\ [][NextRegistry]_vars


\* ------------------------------------------------------------------------
\* The environment changes and Dye.set_output_elements is called
\* ------------------------------------------------------------------------

\* the clauses DYE_COLORS is written from
ClausePool ==
    {<<"usage_", "text", "=", "red">>, <<"usage_", "text", "=", "blue">>,
     <<"usage_", "prog", "=", "red", "=", "bold">>, <<"usage_", "text", "=">>,
     <<"error_", "text", "=", "red">>, <<"fred", "=", "white">>,
     <<"usage_", "args", "red">>, <<>>}

\* the largest number of clauses in DYE_COLORS
MaxClauses == 2

\* the values a variable of the environment is given next: DYE_COLORS is
\* written as one clause or extended by ":" and a clause
EnvironValues(env, name) ==
    IF name = "DYE_COLORS"
    THEN ClausePool \cup
         {env[name] \o <<":">> \o clause :
             clause \in IF is_set(env, name) /\ Len(split(env[name], ":")) < MaxClauses
                        THEN ClausePool ELSE {}}
    ELSE {<<>>, <<"1">>}

InitElements ==
    /\ scope = NewScopeOf("gnu_ls")
    /\ result = NoResult
    /\ call = NoCall
    /\ runs = 0
    /\ classmap = registered(AgentClasses, Len(AgentClasses))
    /\ defined = AgentClasses
    /\ IdleApplication

\* os.environ[name] = value
Setenv(name, value) ==
    /\ environ' = (name :> value) @@ environ
    /\ UNCHANGED <<scope, result, call, runs, registry>>
    /\ UNCHANGED <<output_elements, formatter_styles, args, finished>>

\* del os.environ[name]
Unsetenv(name) ==
    /\ is_set(environ, name)
    /\ environ' = [n \in DOMAIN environ \ {name} |-> environ[n]]
    /\ UNCHANGED <<scope, result, call, runs, registry>>
    /\ UNCHANGED <<output_elements, formatter_styles, args, finished>>

SetOutputElements ==
    /\ output_elements' = set_output_elements(environ).output_elements
    /\ formatter_styles' = set_output_elements(environ).styles
    /\ UNCHANGED <<scope, result, call, runs, registry>>
    /\ UNCHANGED <<environ, args, finished>>

NextElements ==
    \/ \E name \in {"DYE_COLORS", "NO_COLOR"} :
         \E value \in EnvironValues(environ, name) : Setenv(name, value)
    \/ \E name \in {"DYE_COLORS", "NO_COLOR"} : Unsetenv(name)
    \/ SetOutputElements

SpecElements == InitElements /\ [][NextElements]_vars


\* ------------------------------------------------------------------------
\* A command line is parsed, the environment names files, and a theme or a
\* pattern is loaded from the arguments
\* ------------------------------------------------------------------------

\* the file names given on the command line or in the environment
FileNames == Files \cup {<<"missing.toml">>, <<>>}

\* the arguments of a command with the options --theme-file, --no-theme,
\* --pattern-file and, unless the command is apply, --no-pattern
LoadArgs ==
    {files @@ flags @@ NoArgs :
        files \in UNION {[s -> FileNames] : s \in SUBSET {"theme_file", "pattern_file"}},
        flags \in UNION {[s \cup {"no_theme"} -> BOOLEAN] : s \in SUBSET {"no_pattern"}}}

InitLoad ==
    /\ scope = NewScopeOf("gnu_ls")
    /\ result = NoResult
    /\ call = NoCall
    /\ runs = 0
    /\ classmap = registered(AgentClasses, Len(AgentClasses))
    /\ defined = AgentClasses
    /\ IdleApplication

\* Dye.parse_args
ParseArgs(a) ==
    /\ finished = NotStarted
    /\ args = NoArgs
    /\ args' = a
    /\ UNCHANGED <<scope, result, call, runs, registry>>
    /\ UNCHANGED <<environ, output_elements, formatter_styles, finished>>

\* the environment names a theme or a pattern file
SetFileVariable(name, value) ==
    /\ finished = NotStarted
    /\ args = NoArgs
    /\ ~is_set(environ, name)
    /\ environ' = (name :> value) @@ environ
    /\ UNCHANGED <<scope, result, call, runs, registry>>
    /\ UNCHANGED <<output_elements, formatter_styles, args, finished>>

LoadTheme(required) ==
    /\ finished = NotStarted
    /\ args # NoArgs
    /\ finished' = [call |-> "load_theme_from_args", required |-> required,
                    theme |-> NoTheme,
                    outcome |-> load_theme_from_args(args, required, environ)]
    /\ UNCHANGED <<scope, result, call, runs, registry>>
    /\ UNCHANGED <<environ, output_elements, formatter_styles, args>>

LoadPattern(required, theme) ==
    /\ finished = NotStarted
    /\ args # NoArgs
    /\ finished' = [call |-> "load_pattern_from_args", required |-> required,
                    theme |-> theme,
                    outcome |-> load_pattern_from_args(args, required, theme, environ)]
    /\ UNCHANGED <<scope, result, call, runs, registry>>
    /\ UNCHANGED <<environ, output_elements, formatter_styles, args>>

\* the next test starts from a fresh environment and a fresh command line
NextInvocation ==
    /\ finished # NotStarted
    /\ environ' = <<>>
    /\ args' = NoArgs
    /\ finished' = NotStarted
    /\ UNCHANGED <<scope, result, call, runs, registry>>
    /\ UNCHANGED <<output_elements, formatter_styles>>

NextLoad ==
    \/ args = NoArgs /\ \E a \in LoadArgs : ParseArgs(a)
    \/ \E name \in {"DYE_THEME_FILE", "DYE_PATTERN_FILE"} :
         \E value \in FileNames : SetFileVariable(name, value)
    \/ \E required \in BOOLEAN : LoadTheme(required)
    \/ \E required \in BOOLEAN :
         \E theme \in {NoTheme, EmptyTheme, Theme_load(<<"theme.toml">>)} :
            LoadPattern(required, theme)
    \/ NextInvocation

SpecLoad == InitLoad /\ [][NextLoad]_vars


\* ------------------------------------------------------------------------
\* dye apply: a command line with --scope is parsed and command_apply runs
\* ------------------------------------------------------------------------

\* the largest number of tokens in the text of --scope
MaxScopeTokens == 5

ScopeTokens == {"ls", "finder", "term", "bogus", ","}

ScopeTexts == UNION {[1..n -> ScopeTokens] : n \in 0..MaxScopeTokens}

\* the arguments of dye apply: --pattern-file and --scope given or not
ApplyArgs ==
    {files @@ scopes @@ [command |-> <<"apply">>, no_theme |-> FALSE, comment |-> FALSE]
        @@ NoArgs :
        files \in UNION {[s -> {<<"pattern.toml">>, <<"bare.toml">>, <<"missing.toml">>}] :
                            s \in SUBSET {"pattern_file"}},
        scopes \in UNION {[s -> ScopeTexts] : s \in SUBSET {"scope"}}}

InitApply ==
    /\ scope = NewScopeOf("gnu_ls")
    /\ result = NoResult
    /\ call = NoCall
    /\ runs = 0
    /\ classmap = registered(AgentClasses, Len(AgentClasses))
    /\ defined = AgentClasses
    /\ IdleApplication

CommandApply ==
    /\ finished = NotStarted
    /\ args # NoArgs
    /\ finished' = [call |-> "command_apply"] @@ command_apply(args, environ)
    /\ UNCHANGED <<scope, result, call, runs, registry>>
    /\ UNCHANGED <<environ, output_elements, formatter_styles, args>>

NextApply ==
    \/ args = NoArgs /\ \E a \in ApplyArgs : ParseArgs(a)
    \/ \E value \in {<<"pattern.toml">>} : SetFileVariable("DYE_PATTERN_FILE", value)
    \/ CommandApply
    \/ NextInvocation

SpecApply == InitApply /\ [][NextApply]_vars


\* ------------------------------------------------------------------------
\* dye: a command line is parsed and dispatched
\* ------------------------------------------------------------------------

\* the arguments dispatch is called with
DispatchArgs ==
    {command @@ files @@ flags @@ scopes @@ [comment |-> FALSE] @@ main :
        main \in [help : BOOLEAN, version : BOOLEAN],
        command \in UNION {[s -> Commands \cup {<<"help">>, <<"fredflintstone">>, <<>>}] :
                              s \in SUBSET {"command"}},
        files \in UNION {[s -> {<<"pattern.toml">>, <<"bare.toml">>, <<"missing.toml">>}] :
                            s \in SUBSET {"pattern_file"}},
        flags \in UNION {[s \cup {"no_theme"} -> BOOLEAN] : s \in SUBSET {"no_pattern"}},
        scopes \in UNION {[s -> {<<"term", ",", "ls">>, <<"ls", ",", "bogus", ",", "term">>}] :
                             s \in SUBSET {"scope"}}}

InitDispatch ==
    /\ scope = NewScopeOf("gnu_ls")
    /\ result = NoResult
    /\ call = NoCall
    /\ runs = 0
    /\ classmap = registered(AgentClasses, Len(AgentClasses))
    /\ defined = AgentClasses
    /\ IdleApplication

Dispatch ==
    /\ finished = NotStarted
    /\ args # NoArgs
    /\ finished' = [call |-> "dispatch"] @@ dispatch(<<"dye">>, args, environ)
    /\ UNCHANGED <<scope, result, call, runs, registry>>
    /\ UNCHANGED <<environ, output_elements, formatter_styles, args>>

NextDispatch ==
    \/ args = NoArgs /\ \E a \in DispatchArgs : ParseArgs(a)
    \/ \E value \in {<<"theme.toml">>, <<"missing.toml">>} :
         SetFileVariable("DYE_THEME_FILE", value)
    \/ \E value \in {<<"dyedir">>, <<"nowhere">>} : SetFileVariable("DYE_DIR", value)
    \/ Dispatch
    \/ NextInvocation

SpecDispatch == InitDispatch /\ [][NextDispatch]_vars

\* the run of the scope's agent
agent_run(sc) ==
    CASE sc.agent = "gnu_ls" -> GnuLs_run(sc)
      [] sc.agent = "eza" -> Eza_run(sc)
      [] sc.agent = "fzf" -> Fzf_run(sc)
      [] sc.agent = "iterm" -> Iterm_run(sc)

\* what a run handed over: the value returned and the lines printed
produced(r) == r.returned \o r.printed

\* the agent of the scope has run
ran(agent) == scope.agent = agent /\ result # NoResult


count(seq, x) == Cardinality({i \in 1..Len(seq) : seq[i] = x})

\* the entries of a style mapping with a non-empty style, in order
truthy_entries(styles) == SelectSeq(styles, LAMBDA e : e.style # EmptyStyle)

\* the SGR parameters of a reference ANSI renderer (ECMA-48, with the
\* aixterm bright colors and the 256 color and direct color extensions)
reference_attribute == [a \in AttributeSet |->
    CASE a = "bold" -> 1 [] a = "dim" -> 2 [] a = "italic" -> 3
      [] a = "underline" -> 4 [] a = "reverse" -> 7 [] a = "strike" -> 9]

reference_color(color, base) ==
    CASE color.type = "default" -> <<base + 9>>
      [] color.type = "standard" /\ color.number < 8 -> <<base + color.number>>
      [] color.type = "standard" /\ color.number >= 8 -> <<base + 60 + (color.number - 8)>>
      [] color.type = "eight_bit" -> <<base + 8, 5, color.number>>
      [] color.type = "truecolor" ->
            <<base + 8, 2, color.triplet[1], color.triplet[2], color.triplet[3]>>
      [] OTHER -> <<>>

reference_parameters(style) ==
    SelectSeq(<<1, 2, 3, 4, 7, 9>>,
              LAMBDA p : \E a \in style.attrs : reference_attribute[a] = p)
    \o reference_color(style.color, 30) \o reference_color(style.bgcolor, 40)

reference_sgr(style) ==
    LET p == reference_parameters(style)
    IN  join(";", [i \in 1..Len(p) |-> str(p[i])])

\* the code of a fragment: "0" for a default foreground, else the SGR string
expected_code(style) ==
    IF style.color.type = "default" THEN "0" ELSE reference_sgr(style)

\* the native code a name stands for: its entry in the map, else the name
resolved(name, mapp) == IF name \in DOMAIN mapp THEN mapp[name] ELSE name

\* the fragments of the non-empty styles of a mapping, in declaration order
expected_fragments(styles, mapp) ==
    LET entries == truthy_entries(styles)
    IN  [i \in 1..Len(entries) |->
            resolved(entries[i].name, mapp) \o "=" \o expected_code(entries[i].style)]

\* the variable an export statement is meant to set
target_variable(sc, default) ==
    IF "environment_variable" \in DOMAIN sc.definition
    THEN sc.definition["environment_variable"].s
    ELSE default

\* clear_builtin is configured as true
clears_builtin(sc) ==
    /\ "clear_builtin" \in DOMAIN sc.definition
    /\ sc.definition["clear_builtin"] = BoolVal(TRUE)

\* the native codes GNU ls has a built-in color for
BuiltinCodes ==
    <<"no", "fi", "di", "ln", "mh", "pi", "so", "do", "bd", "cd",
      "or", "mi", "su", "sg", "st", "ow", "tw", "ex", "ca">>

\* the native codes the non-empty styles of a GnuLs scope resolve to
covered_codes(sc) ==
    {resolved(e.name, LS_COLORS_MAP) : e \in elements(truthy_entries(sc.styles))}

\* a neutral fragment for each built-in code no configured style resolved to
neutral_fragments(sc) ==
    LET codes == SelectSeq(BuiltinCodes, LAMBDA c : c \notin covered_codes(sc))
    IN  [i \in 1..Len(codes) |-> codes[i] \o "=0"]

\* the list a GnuLs run is to render
expected_gnu_ls(sc) ==
    expected_fragments(sc.styles, LS_COLORS_MAP)
    \o (IF clears_builtin(sc) THEN neutral_fragments(sc) ELSE <<>>)

\* the list an Eza run is to render
expected_eza(sc) ==
    (IF clears_builtin(sc) THEN <<"reset">> ELSE <<>>)
    \o expected_fragments(sc.styles, EZA_COLORS_MAP)

\* ------------------------------------------------------------------------
\* Properties
\* ------------------------------------------------------------------------

\* C1: every run of GnuLs or Eza that completes hands over exactly one
\* export statement for the target variable, also when no fragment was
\* rendered (the value is then empty); GnuLs with an empty style mapping,
\* clear_builtin false or absent and no environment_variable gives exactly
\* export LS_COLORS=""
C1_ExportAlwaysEmitted ==
    /\ (ran("gnu_ls") /\ result.status = "ok") =>
          /\ Len(produced(result)) = 1
          /\ produced(result)[1] = "export " \o target_variable(scope, "LS_COLORS") \o "=\""
                                   \o join(":", expected_gnu_ls(scope)) \o "\""
    /\ (ran("eza") /\ result.status = "ok") =>
          /\ Len(produced(result)) = 1
          /\ produced(result)[1] = "export " \o target_variable(scope, "EZA_COLORS") \o "=\""
                                   \o join(":", expected_eza(scope)) \o "\""
    /\ (/\ result.status = "ok"
        /\ ran("gnu_ls") \/ ran("eza")
        /\ truthy_entries(scope.styles) = <<>>
        /\ ~clears_builtin(scope)) =>
          produced(result) = <<"export "
              \o target_variable(scope, IF scope.agent = "eza" THEN "EZA_COLORS" ELSE "LS_COLORS")
              \o "=\"\"">>
    /\ (/\ ran("gnu_ls")
        /\ scope.styles = <<>>
        /\ \/ "clear_builtin" \notin DOMAIN scope.definition
           \/ scope.definition["clear_builtin"] = BoolVal(FALSE)
        /\ "environment_variable" \notin DOMAIN scope.definition) =>
          result = Outcome("ok", <<"export LS_COLORS=\"\"">>, <<>>)

\* C1 witness: GnuLs ran on a scope whose only style is empty, and returned
\* the statement that empties LS_COLORS
C1_Witness ==
    /\ ran("gnu_ls")
    /\ Len(scope.styles) = 1
    /\ truthy_entries(scope.styles) = <<>>
    /\ result.returned = <<"export LS_COLORS=\"\"">>

\* the fragments a style configured for a native code can render to
fragments_of(code) ==
    {code \o "=" \o expected_code(s) : s \in {t \in StylePool : t.color # None}}

\* C2: GnuLs with clear_builtin true, on every style mapping it renders: the
\* output holds the fragment of each overridden entry, exactly one neutral
\* fragment <code>=0 for each of the 19 built-in codes no configured style
\* resolved to, and after the overrides no fragment for a code a configured
\* style resolved to; with one overridden entry its code is the key of
\* exactly one fragment
C2_ClearBuiltin ==
    (ran("gnu_ls") /\ result.status = "ok" /\ clears_builtin(scope)) =>
        LET outlist == gnu_ls_outlist(scope).outlist
            overrides == truthy_entries(scope.styles)
            appended == SubSeq(outlist, Len(overrides) + 1, Len(outlist))
        IN  /\ Len(BuiltinCodes) = 19
            /\ elements(BuiltinCodes)
                 = {LS_COLORS_BASE_MAP[i][2] : i \in 1..Len(LS_COLORS_BASE_MAP)}
            /\ result.returned = <<"export " \o target_variable(scope, "LS_COLORS") \o "=\""
                                   \o join(":", outlist) \o "\"">>
            /\ \A i \in 1..Len(overrides) :
                 outlist[i] = resolved(overrides[i].name, LS_COLORS_MAP) \o "="
                              \o expected_code(overrides[i].style)
            /\ \A c \in elements(BuiltinCodes) :
                 IF c \in covered_codes(scope)
                 THEN c \o "=0" \notin elements(appended)
                 ELSE count(outlist, c \o "=0") = 1 /\ c \o "=0" \in elements(appended)
            /\ Len(appended) = Cardinality(elements(BuiltinCodes) \ covered_codes(scope))
            /\ Len(overrides) = 1 =>
                 Cardinality({i \in 1..Len(outlist) :
                     outlist[i] \in
                       fragments_of(resolved(overrides[1].name, LS_COLORS_MAP))}) = 1

\* C2 witness: GnuLs ran with clear_builtin true and the one override
\* directory = bright red underlined: di once, the 18 other codes neutral
C2_Witness ==
    /\ ran("gnu_ls")
    /\ clears_builtin(scope)
    /\ Len(truthy_entries(scope.styles)) = 1
    /\ result.returned = <<"export LS_COLORS=\"di=4;91:no=0:fi=0:ln=0:mh=0:pi=0:so=0:do=0:bd=0:cd=0:or=0:mi=0:su=0:sg=0:st=0:ow=0:tw=0:ex=0:ca=0\"">>

\* the entries of a style mapping whose name is not in the map
unknown_entries(styles, mapp) == SelectSeq(styles, LAMBDA e : e.name \notin DOMAIN mapp)

\* C3 as stated: ls_colors_from_style with allow_unknown false fails for a
\* name absent from the map whatever the style, an empty style included, so
\* GnuLs.run fails for every scope whose style mapping has a name that is
\* not in LS_COLORS_MAP
C3_Original ==
    ran("gnu_ls") =>
        \A e \in elements(unknown_entries(scope.styles, LS_COLORS_MAP)) :
            /\ ls_colors_from_style(e.name, e.style, LS_COLORS_MAP, FALSE).err # "none"
            /\ result.status # "ok"

\* C3 amended: ls_colors_from_style with allow_unknown false fails for a
\* name absent from the map and every non-empty style, and returns the
\* empty pair without an error for an empty style; GnuLs.run fails for
\* every scope that has a non-empty style under a name not in
\* LS_COLORS_MAP, and raises no unknown style error when every such name
\* has an empty style
C3_UnknownNameFails ==
    ran("gnu_ls") =>
        LET unknown == unknown_entries(scope.styles, LS_COLORS_MAP)
        IN  /\ \A e \in elements(unknown) :
                 LET r == ls_colors_from_style(e.name, e.style, LS_COLORS_MAP, FALSE)
                 IN  IF e.style = EmptyStyle
                     THEN r = [err |-> "none", mapname |-> "", render |-> ""]
                     ELSE r.err = "DyeError" /\ result.status \notin {"ok", "none"}
                          /\ produced(result) = <<>>
            /\ (\A e \in elements(unknown) : e.style = EmptyStyle) => result.status # "DyeError"
            /\ (/\ "clear_builtin" \notin DOMAIN scope.definition
                /\ Len(scope.styles) >= 1
                /\ scope.styles[1] \in elements(unknown)
                /\ scope.styles[1].style # EmptyStyle) => result.status = "DyeError"

\* C3 witness: GnuLs ran on a scope with a non-empty style named *.txt and
\* failed with the unknown style error
C3_Witness ==
    /\ ran("gnu_ls")
    /\ \E e \in elements(scope.styles) : e.name = "*.txt" /\ e.style # EmptyStyle
    /\ result.status = "DyeError"

\* C4: ls_colors_from_style with allow_unknown true raises no unknown style
\* error and gives the name itself as the native code of a name absent
\* from the map; Eza.run rejects no style name and the key of the fragment
\* of a name that is not in EZA_COLORS_MAP is that name, unchanged
C4_UnknownNamePassesThrough ==
    ran("eza") =>
        /\ result.status # "DyeError"
        /\ \A e \in elements(unknown_entries(scope.styles, EZA_COLORS_MAP)) :
             LET r == ls_colors_from_style(e.name, e.style, EZA_COLORS_MAP, TRUE)
             IN  /\ r.err # "DyeError"
                 /\ (e.style # EmptyStyle /\ r.err = "none") =>
                       /\ r.mapname = e.name
                       /\ r.render = e.name \o "=" \o expected_code(e.style)
        /\ result.status = "ok" =>
             LET outlist == eza_outlist(scope).outlist
                 entries == truthy_entries(scope.styles)
                 first == Len(outlist) - Len(entries)
             IN  /\ result.printed = <<"export " \o target_variable(scope, "EZA_COLORS")
                                       \o "=\"" \o join(":", outlist) \o "\"">>
                 /\ first \in {0, 1}
                 /\ \A i \in 1..Len(entries) :
                      entries[i].name \notin DOMAIN EZA_COLORS_MAP =>
                        outlist[first + i] = entries[i].name \o "="
                                             \o expected_code(entries[i].style)

\* C4 witness: Eza ran on a scope whose style *.txt is not in the map and
\* printed a fragment keyed by *.txt
C4_Witness ==
    /\ ran("eza")
    /\ result.printed = <<"export EZA_COLORS=\"*.txt=4;91\"">>

\* a style mapping without its i-th entry
without_entry(styles, i) == SubSeq(styles, 1, i - 1) \o SubSeq(styles, i + 1, Len(styles))

\* C5: for GnuLs, Eza, Fzf and Iterm an entry with an empty style, under
\* any name, changes nothing: the run gives exactly the result of the run
\* on the scope without that entry, and so never fails because of it
C5_EmptyStyleIgnored ==
    result # NoResult =>
        \A i \in 1..Len(scope.styles) :
            scope.styles[i].style = EmptyStyle =>
                result = agent_run([scope EXCEPT !.styles = without_entry(@, i)])

\* the call returned and its name resolves (or may pass through)
resolves == call.name \in DOMAIN map_of(call.mapp) \/ call.allow_unknown

\* C6: when the foreground of the style is the Default variant the code is
\* exactly "0" and the fragment <code>=0, whatever background color and
\* attributes the style carries
C6_DefaultForegroundIsZero ==
    (call.phase = "returned" /\ call.style.color = Default) =>
        IF resolves
        THEN call.ret = [err |-> "none",
                         mapname |-> resolved(call.name, map_of(call.mapp)),
                         render |-> resolved(call.name, map_of(call.mapp)) \o "=0"]
        ELSE call.ret.err = "DyeError"

\* C6 witness: a default foreground with a background and all six
\* attributes returned di=0
C6_Witness ==
    /\ call.phase = "returned"
    /\ call.style.color = Default
    /\ call.style.bgcolor = TrueColor(0, 128, 255)
    /\ call.style.attrs = AttributeSet
    /\ call.ret.render = "di=0"

\* C7: for a Standard, Extended or TrueColor foreground the code is exactly
\* the semicolon joined SGR parameter list of a reference renderer
\* (attributes, foreground, background if present) and the fragment is
\* <nativeCode>=<that string>
C7_SgrMatchesReference ==
    (call.phase = "returned"
     /\ call.style.color.type \in {"standard", "eight_bit", "truecolor"}) =>
        IF resolves
        THEN call.ret = [err |-> "none",
                         mapname |-> resolved(call.name, map_of(call.mapp)),
                         render |-> resolved(call.name, map_of(call.mapp)) \o "="
                                    \o reference_sgr(call.style)]
        ELSE call.ret.err = "DyeError"

\* C7 witness: a direct color foreground on an extended background with all
\* six attributes returned the full parameter list
C7_Witness ==
    /\ call.phase = "returned"
    /\ call.ret.render = "di=1;2;3;4;7;9;38;2;0;128;255;48;5;200"

\* the scope with a configuration key set or replaced
with_key(sc, key, value) == [sc EXCEPT !.definition = (key :> value) @@ @]

\* the scope without a configuration key
without_key(sc, key) ==
    [sc EXCEPT !.definition = [k \in (DOMAIN @) \ {key} |-> @[k]]]

\* C8: for GnuLs and Eza an absent clear_builtin behaves as false and is no
\* error, a clear_builtin that is not a boolean fails the run with the
\* syntax error and no export statement, and a boolean never raises it
C8_ClearBuiltinType ==
    (ran("gnu_ls") \/ ran("eza")) =>
        IF "clear_builtin" \notin DOMAIN scope.definition
        THEN /\ result.status # "DyeSyntaxError"
             /\ result = agent_run(with_key(scope, "clear_builtin", BoolVal(FALSE)))
        ELSE IF scope.definition["clear_builtin"] \notin {BoolVal(TRUE), BoolVal(FALSE)}
        THEN result = Outcome("DyeSyntaxError", <<>>, <<>>)
        ELSE result.status # "DyeSyntaxError"

\* C8 witness: GnuLs ran with clear_builtin = "yes" and failed with the
\* syntax error, handing over nothing
C8_Witness ==
    /\ ran("gnu_ls")
    /\ "clear_builtin" \in DOMAIN scope.definition
    /\ scope.definition["clear_builtin"] = StrVal("yes")
    /\ result = Outcome("DyeSyntaxError", <<>>, <<>>)

\* C9: Eza with clear_builtin true prints a colon separated list whose
\* first token is reset, once, before every style fragment; with
\* clear_builtin false or absent the agent contributes no reset token
C9_ResetFirst ==
    (ran("eza") /\ result.status = "ok") =>
        LET outlist == eza_outlist(scope).outlist
            fragments == expected_fragments(scope.styles, EZA_COLORS_MAP)
        IN  /\ result.printed = <<"export " \o target_variable(scope, "EZA_COLORS")
                                  \o "=\"" \o join(":", outlist) \o "\"">>
            /\ "reset" \notin elements(fragments)
            /\ IF clears_builtin(scope)
               THEN /\ Len(outlist) >= 1
                    /\ outlist[1] = "reset"
                    /\ count(outlist, "reset") = 1
                    /\ Tail(outlist) = fragments
               ELSE outlist = fragments

\* C9 witness: Eza ran with clear_builtin true and one style and printed
\* reset before the fragment
C9_Witness ==
    /\ ran("eza")
    /\ clears_builtin(scope)
    /\ result.printed = <<"export EZA_COLORS=\"reset:di=4;91\"">>

\* the default variable of an agent that exports one
default_variable(agent) ==
    CASE agent = "gnu_ls" -> "LS_COLORS"
      [] agent = "eza" -> "EZA_COLORS"
      [] agent = "fzf" -> "FZF_DEFAULT_OPTS"

\* the value an agent is to assign to its variable
value_part(sc) ==
    CASE sc.agent = "gnu_ls" -> join(":", expected_gnu_ls(sc))
      [] sc.agent = "eza" -> join(":", expected_eza(sc))
      [] sc.agent = "fzf" ->
            fzf_optstr(IF "opts" \in DOMAIN sc.definition
                       THEN sc.definition["opts"].m ELSE <<>>, 1)
            \o fzf_colorstr(sc)

\* C10: GnuLs, Eza and Fzf export the variable named by environment_variable
\* when the key is present and else LS_COLORS, EZA_COLORS, FZF_DEFAULT_OPTS;
\* the value part is the same whichever variable is named
C10_VariableName ==
    (scope.agent \in {"gnu_ls", "eza", "fzf"} /\ result.status = "ok") =>
        LET value == value_part(scope)
            default == default_variable(scope.agent)
        IN  /\ produced(result) =
                 <<"export "
                   \o (IF "environment_variable" \in DOMAIN scope.definition
                       THEN scope.definition["environment_variable"].s ELSE default)
                   \o "=\"" \o value \o "\"">>
            /\ produced(agent_run(without_key(scope, "environment_variable")))
                 = <<"export " \o default \o "=\"" \o value \o "\"">>
            /\ produced(agent_run(with_key(scope, "environment_variable", StrVal("OTHER"))))
                 = <<"export OTHER=\"" \o value \o "\"">>

\* C10 witness: Fzf ran with environment_variable = MY_COLORS and a
\* colorbase and printed the statement for MY_COLORS
C10_Witness ==
    /\ ran("fzf")
    /\ result.printed = <<"export MY_COLORS=\" --color='dark,'\"">>

\* the decimal text of the palette indexes the model passes
decimal_text(n) ==
    CASE n < 16 -> <<"0", "1", "2", "3", "4", "5", "6", "7", "8", "9",
                     "10", "11", "12", "13", "14", "15">>[n + 1]
      [] n = 16 -> "16"
      [] n = 200 -> "200"
      [] n = 255 -> "255"

\* the #rrggbb text of the direct colors the model passes
hex_text(triplet) ==
    CASE triplet = <<17, 34, 51>> -> "#112233"
      [] triplet = <<0, 128, 255>> -> "#0080ff"
      [] triplet = <<255, 255, 255>> -> "#ffffff"
      [] triplet = <<0, 0, 0>> -> "#000000"

\* the color encoding fzf is to be given
fzf_color_text(color) ==
    CASE color.type = "default" -> "-1"
      [] color.type \in {"standard", "eight_bit"} -> decimal_text(color.number)
      [] color.type = "truecolor" -> hex_text(color.triplet)

\* the attribute encoding fzf is to be given: regular, then the attributes
\* set on the style in the fixed order
fzf_attribute_text(style) ==
    LET order == <<"bold", "underline", "reverse", "dim", "italic", "strike">>
        word == [a \in AttributeSet |-> IF a = "strike" THEN "strikethrough" ELSE a]
        set == SelectSeq(order, LAMBDA a : a \in style.attrs)
    IN  "regular" \o concat([i \in 1..Len(set) |-> ":" \o word[set[i]]])

\* the foreground and background keys of the four paired names
paired_keys(name) ==
    CASE name = "text" -> [fg |-> "fg", bg |-> "bg"]
      [] name = "current-line" -> [fg |-> "fg+", bg |-> "bg+"]
      [] name = "selected-line" -> [fg |-> "selected-fg", bg |-> "selected-bg"]
      [] name = "preview" -> [fg |-> "preview-fg", bg |-> "preview-bg"]

PairedNames == {"text", "current-line", "selected-line", "preview"}

\* the clauses _fzf_from_style is to emit for a name and its style
fzf_clauses(name, style) ==
    LET paired == name \in PairedNames
        fgkey == IF paired THEN paired_keys(name).fg ELSE name
    IN  (IF style.color # None
         THEN <<fgkey \o ":" \o fzf_color_text(style.color) \o ":"
                \o fzf_attribute_text(style)>>
         ELSE <<>>)
        \o (IF paired /\ style.bgcolor # None
            THEN <<paired_keys(name).bg \o ":" \o fzf_color_text(style.bgcolor)>>
            ELSE <<>>)

\* C11: for the four paired names _fzf_from_style emits <fgkey>:<color>:<attrs>
\* exactly when the style has a foreground and <bgkey>:<color>, without
\* attributes, exactly when it has a background, the foreground clause first;
\* for any other name it emits only <name>:<color>:<attrs> from the foreground
\* and nothing from the background
C11_FzfClauses ==
    (call.phase = "returned" /\ call.method = "_fzf_from_style") =>
        /\ call.ret = join(",", fzf_clauses(call.name, call.style))
        /\ Len(fzf_clauses(call.name, call.style))
             = (IF call.style.color # None THEN 1 ELSE 0)
               + (IF call.name \in PairedNames /\ call.style.bgcolor # None THEN 1 ELSE 0)

\* C11 witness: text with the foreground #112233 and bold, without a
\* background, returned fg:#112233:regular:bold and no bg clause
C11_Witness ==
    /\ call.phase = "returned"
    /\ call.method = "_fzf_from_style"
    /\ call.name = "text"
    /\ call.style = Style(TrueColor(17, 34, 51), None, {"bold"})
    /\ call.ret = "fg:#112233:regular:bold"

\* what one entry of opts is to contribute
option_text(key, value) ==
    CASE value.t = "str" -> " " \o key \o "='" \o value.s \o "'"
      [] value = BoolVal(TRUE) -> " " \o key
      [] OTHER -> ""

\* what the opts mapping of a scope is to contribute, in declaration order
options_text(sc) ==
    IF "opts" \notin DOMAIN sc.definition THEN ""
    ELSE LET opts == sc.definition["opts"].m
         IN  concat([i \in 1..Len(opts) |-> option_text(opts[i][1], opts[i][2])])

\* C12: Fzf.run renders opts in declaration order: a string value gives
\* key='value', a boolean true gives the bare key, a boolean false or a value
\* of another type gives nothing, and an absent opts gives the empty string
C12_OptsRendered ==
    ran("fzf") =>
        result.printed = <<"export " \o target_variable(scope, "FZF_DEFAULT_OPTS") \o "=\""
                           \o options_text(scope) \o fzf_colorstr(scope) \o "\"">>

\* C12 witness: Fzf ran with opts --height 40%, --reverse true, --no-x false
\* and printed the two options, without the false flag
C12_Witness ==
    /\ ran("fzf")
    /\ "opts" \in DOMAIN scope.definition
    /\ Len(scope.definition["opts"].m) = 3
    /\ result.printed = <<"export FZF_DEFAULT_OPTS=\" --height='40%' --reverse\"">>

\* the clauses of all entries of a style mapping from entry i on, in order
RECURSIVE all_clauses(_, _)
all_clauses(styles, i) ==
    IF i > Len(styles) THEN <<>>
    ELSE fzf_clauses(styles[i].name, styles[i].style) \o all_clauses(styles, i + 1)

\* the --color argument Fzf.run is to emit: the colorbase with its comma,
\* then the clauses separated by commas; nothing without both
color_argument(sc) ==
    LET clauses == all_clauses(sc.styles, 1)
        based == "colorbase" \in DOMAIN sc.definition
    IN  IF based \/ Len(clauses) > 0
        THEN " --color='" \o (IF based THEN sc.definition["colorbase"].s \o "," ELSE "")
             \o join(",", clauses) \o "'"
        ELSE ""

\* C13: Fzf.run emits --color if and only if a colorbase is configured or a
\* style produced a clause, omits it when there is no colorbase and no style
\* yields a clause, and never puts an empty clause into the list
C13_ColorArgument ==
    ran("fzf") =>
        result.printed = <<"export " \o target_variable(scope, "FZF_DEFAULT_OPTS") \o "=\""
                           \o options_text(scope) \o color_argument(scope) \o "\"">>

\* C14: _fzf_color_from_rich_color maps Default to -1, Standard and Extended
\* to the decimal palette index and TrueColor to #rrggbb, and returns no
\* empty string for any of the four variants
C14_ColorEncoding ==
    (call.phase = "returned" /\ call.method = "_fzf_color_from_rich_color") =>
        /\ call.ret = fzf_color_text(call.color)
        /\ call.ret # ""

\* C14 witness: the direct color (0, 128, 255) returned #0080ff
C14_Witness ==
    /\ call.phase = "returned"
    /\ call.method = "_fzf_color_from_rich_color"
    /\ call.color = TrueColor(0, 128, 255)
    /\ call.ret = "#0080ff"

\* C15: _fzf_attribs_from_style returns regular followed, in the order bold,
\* underline, reverse, dim, italic, strikethrough, by :<attr> for exactly the
\* attributes set on the style, each once
C15_AttributeEncoding ==
    (call.phase = "returned" /\ call.method = "_fzf_attribs_from_style") =>
        call.ret = fzf_attribute_text(call.style)

\* C15 witness: a style with all six attributes returned all six words in
\* the fixed order
C15_Witness ==
    /\ call.phase = "returned"
    /\ call.method = "_fzf_attribs_from_style"
    /\ call.style.attrs = AttributeSet
    /\ call.ret = "regular:bold:underline:reverse:dim:italic:strikethrough"

\* the echo command that sends an escape sequence
echo(sequence) == "builtin echo -en \"" \o sequence \o "\""

\* the style declared under a name
style_named(sc, name) == sc.styles[style_of(sc.styles, name)].style

\* the red, green and blue channels of the colors the model declares
channels(color) ==
    CASE color.type = "truecolor" -> color.triplet
      [] color = Default -> <<0, 0, 0>>
      [] color = Standard(4) -> <<0, 0, 128>>
      [] color = Standard(9) -> <<255, 0, 0>>
      [] color = EightBit(200) -> <<255, 0, 215>>

\* step 1: the profile switch
profile_command(sc) ==
    IF "profile" \in DOMAIN sc.definition
    THEN <<echo("\\e]1337;SetProfile=" \o sc.definition["profile"].s \o "\\a")>>
    ELSE <<>>

\* the command that sets the brightness of one channel of the tab color
brightness_command(channel, value) ==
    echo("\\e]6;1;bg;" \o channel \o ";brightness;" \o str(value) \o "\\a")

\* step 2: the tab color of a tab style that has a foreground
tab_commands(sc) ==
    IF "tab" \notin style_names(sc.styles) THEN <<>>
    ELSE LET color == style_named(sc, "tab").color
         IN  IF color = Default THEN <<echo("\\e]6;1;bg;*;default\\a")>>
             ELSE <<brightness_command("red", channels(color)[1]),
                    brightness_command("green", channels(color)[2]),
                    brightness_command("blue", channels(color)[3])>>

\* steps 3, 4 and 6: the palette color of a slot
palette_command(sc, name, slot) ==
    IF name \notin style_names(sc.styles) THEN <<>>
    ELSE LET rgb == channels(style_named(sc, name).color)
         IN  <<echo("\\e]1337;SetColors=" \o slot \o "=" \o hex2(rgb[1]) \o hex2(rgb[2])
                    \o hex2(rgb[3]) \o "\\a")>>

\* the shape number of the recognized cursor shapes
ShapeOf ==
    [v \in {"block", "box"} |-> "0"]
    @@ [v \in {"vertical_bar", "vertical", "bar", "pipe"} |-> "1"]
    @@ [v \in {"underline"} |-> "2"]

\* step 5: the cursor shape of a recognized value
shape_command(sc) ==
    IF "cursor" \notin DOMAIN sc.definition THEN <<>>
    ELSE LET value == sc.definition["cursor"].s
         IN  IF value = "profile" THEN <<echo("\\e[0q")>>
             ELSE IF value \in DOMAIN ShapeOf
             THEN <<echo("\\e]1337;CursorShape=" \o ShapeOf[value] \o "\\a")>>
             ELSE <<>>

\* the commands of a run in their fixed order
iterm_commands(sc) ==
    profile_command(sc) \o tab_commands(sc)
    \o palette_command(sc, "foreground", "fg") \o palette_command(sc, "background", "bg")
    \o shape_command(sc) \o palette_command(sc, "cursor", "curbg")

\* a style mapping declared in the opposite order
reversed(styles) == [i \in 1..Len(styles) |-> styles[Len(styles) + 1 - i]]

\* a declared style has no foreground color
lacks_foreground(sc) == \E i \in 1..Len(sc.styles) : sc.styles[i].style.color = None

\* C16: Iterm.run emits its commands in the order profile switch, tab color,
\* foreground, background, cursor shape, cursor color, whatever the order of
\* declaration; an absent key or style contributes no line and is no error,
\* and a scope with none of them yields the empty string
C16_FixedOrder ==
    ran("iterm") =>
        /\ result.status = "ok" => result.returned = <<join("\n", iterm_commands(scope))>>
        /\ result = Iterm_run([scope EXCEPT !.styles = reversed(@)])
        /\ result.status # "ok" => "cursor" \in DOMAIN scope.definition \/ lacks_foreground(scope)
        /\ (scope.definition = <<>> /\ scope.styles = <<>>) => result.returned = <<"">>

\* C16 witness: the cursor style was declared before the tab style and the
\* profile; the run returned profile, tab color, cursor shape, cursor color
C16_Witness ==
    /\ ran("iterm")
    /\ Len(scope.styles) = 2
    /\ scope.styles[1].name = "cursor"
    /\ scope.styles[2].name = "tab"
    /\ result.returned =
         <<join("\n", <<echo("\\e]1337;SetProfile=dark\\a"),
                       echo("\\e]6;1;bg;*;default\\a"),
                       echo("\\e]1337;CursorShape=1\\a"),
                       echo("\\e]1337;SetColors=curbg=ff0000\\a")>>)>>

\* the cursor values with a shape command of their own
RecognizedCursors ==
    {"profile", "block", "box", "vertical_bar", "vertical", "bar", "pipe", "underline"}

\* C17: whenever the key cursor is present, profile emits the restore
\* default escape, block/box CursorShape=0, vertical_bar/vertical/bar/pipe
\* CursorShape=1, underline CursorShape=2, and any other value, the empty
\* string included, fails the run with the syntax error
C17_CursorShape ==
    (ran("iterm") /\ "cursor" \in DOMAIN scope.definition) =>
        IF scope.definition["cursor"].s \in RecognizedCursors
        THEN /\ result.status # "DyeSyntaxError"
             /\ result.status = "ok" => result.returned = <<join("\n", iterm_commands(scope))>>
        ELSE /\ result.status # "ok"
             /\ ~lacks_foreground(scope) => result = Failed("DyeSyntaxError")

\* C18: a tab style with a Default foreground emits exactly one command, the
\* reset of the tab color, and no brightness command; a tab style with any
\* other foreground emits exactly the three brightness commands red, green,
\* blue with the channel values in 0..255, and no reset command
C18_TabColor ==
    (ran("iterm") /\ "tab" \in style_names(scope.styles)
     /\ style_named(scope, "tab").color # None) =>
        LET color == style_named(scope, "tab").color
            rgb == channels(color)
            tab == IF color.type = "default"
                   THEN <<"builtin echo -en \"\\e]6;1;bg;*;default\\a\"">>
                   ELSE <<"builtin echo -en \"\\e]6;1;bg;red;brightness;"
                            \o str(rgb[1]) \o "\\a\"",
                          "builtin echo -en \"\\e]6;1;bg;green;brightness;"
                            \o str(rgb[2]) \o "\\a\"",
                          "builtin echo -en \"\\e]6;1;bg;blue;brightness;"
                            \o str(rgb[3]) \o "\\a\"">>
        IN  /\ \A i \in 1..3 : rgb[i] \in 0..255
            /\ result.status = "ok" =>
                 result.returned =
                   <<join("\n", profile_command(scope) \o tab
                                \o palette_command(scope, "foreground", "fg")
                                \o palette_command(scope, "background", "bg")
                                \o shape_command(scope)
                                \o palette_command(scope, "cursor", "curbg"))>>

\* C18 witness: a tab style with the Default foreground alone returned the
\* one reset command
C18_Witness ==
    /\ ran("iterm")
    /\ Len(scope.styles) = 1
    /\ scope.styles[1].name = "tab"
    /\ scope.styles[1].style.color = Default
    /\ result.returned = <<"builtin echo -en \"\\e]6;1;bg;*;default\\a\"">>

\* the commands the steps ahead of the cursor step append
commands_before_cursor(sc) ==
    profile_command(sc) \o tab_commands(sc)
    \o palette_command(sc, "foreground", "fg") \o palette_command(sc, "background", "bg")

\* C19: a run of Iterm that fails part-way hands over no line at all, and a
\* run that succeeds hands over its lines as one unit
C19_AllOrNothing ==
    ran("iterm") =>
        IF result.status = "ok"
        THEN Len(result.returned) = 1 /\ result.printed = <<>>
        ELSE produced(result) = <<>>

\* C19 witness: profile and a tab color were appended, then the cursor value
\* triangle failed the run, and nothing was handed over
C19_Witness ==
    /\ ran("iterm")
    /\ "cursor" \in DOMAIN scope.definition
    /\ scope.definition["cursor"] = StrVal("triangle")
    /\ result = Outcome("DyeSyntaxError", <<>>, <<>>)
    /\ Len(commands_before_cursor(scope)) = 4

\* C20: a run of any agent leaves the scope unchanged, its result depends
\* only on the scope and the static tables, and a second run against the
\* unchanged scope gives the identical output or the identical failure
C20_Idempotent ==
    [][result' # NoResult =>
         /\ scope' = scope
         /\ result' = agent_run(scope)
         /\ result # NoResult => result' = result]_vars

\* C20 witness: GnuLs ran a second time against the same scope and returned
\* the statement again
C20_Witness ==
    /\ ran("gnu_ls")
    /\ runs = 2
    /\ result.returned = <<"export LS_COLORS=\"di=4;91\"">>

\* the kind of the error GnuLs raises for a clear_builtin that is no boolean
clear_builtin_error == gnu_ls_clear_builtin("clear_builtin" :> StrVal("yes")).err

\* the kind of the error Iterm raises for an unrecognized cursor value
cursor_error ==
    iterm_cursor([agent |-> "iterm", definition |-> ("cursor" :> StrVal("triangle")),
                  styles |-> <<>>]).err

\* C21: the error raised for an unknown style name where unknown names are
\* not allowed is of the same kind, DyeSyntaxError, as the error for a
\* clear_builtin that is no boolean and for an unrecognized cursor value
C21_SameErrorKind ==
    ran("gnu_ls") =>
        \A e \in elements(unknown_entries(scope.styles, LS_COLORS_MAP)) :
            e.style # EmptyStyle =>
                LET err == ls_colors_from_style(e.name, e.style, LS_COLORS_MAP, FALSE).err
                IN  /\ err = "DyeSyntaxError"
                    /\ err = clear_builtin_error
                    /\ err = cursor_error

\* the table of friendly names and native codes a map is built from
base_of(m) == IF m = "ls" THEN LS_COLORS_BASE_MAP ELSE EZA_COLORS_BASE_MAP

\* C22: each friendly-name map takes every friendly name to its native code
\* and every native code to itself, so MAP[MAP[k]] = MAP[k] for every key,
\* no friendly name is shadowed by the native code of another entry, and an
\* entry named by its native code yields the same fragment as the entry
\* named by its friendly name
C22_MapIdempotent ==
    call.phase = "returned" =>
        LET mapp == map_of(call.mapp)
            base == base_of(call.mapp)
        IN  /\ \A i \in 1..Len(base) :
                 /\ base[i][1] \in DOMAIN mapp
                 /\ base[i][2] \in DOMAIN mapp
                 /\ mapp[base[i][1]] = base[i][2]
                 /\ mapp[base[i][2]] = base[i][2]
            /\ \A k \in DOMAIN mapp : mapp[k] \in DOMAIN mapp /\ mapp[mapp[k]] = mapp[k]
            /\ DOMAIN mapp = {base[i][1] : i \in 1..Len(base)} \cup {base[i][2] : i \in 1..Len(base)}
            /\ call.name \in DOMAIN mapp =>
                 call.ret = ls_colors_from_style(mapp[call.name], call.style, mapp,
                                                 call.allow_unknown)

\* C22 witness: the entry named directory returned the fragment of di
C22_Witness ==
    /\ call.phase = "returned"
    /\ call.name = "directory"
    /\ call.mapp = "ls"
    /\ call.ret.mapname = "di"
    /\ call.ret.render = "di=1;37"

\* the registry name of each class of the model, written out
derived_name(class) ==
    CASE class = "GnuLs" -> "gnu_ls"
      [] class = "GNULs" -> "gnu_ls"
      [] class = "Eza" -> "eza"
      [] class = "Fzf" -> "fzf"
      [] class = "Iterm" -> "iterm"
      [] class = "Shell" -> "shell"
      [] class = "LsColors" -> "ls_colors"
      [] class = "EnvironmentVariables" -> "environment_variables"

\* C23: a class is registered, at the moment it is defined, in classmap under
\* _name_of(<class name>), the lowercase underscore separated form of the
\* class name, which holds no uppercase letter and no hyphen and which
\* _name_of leaves as it is
C23_RegisteredUnderDerivedName ==
    Len(defined) > 0 =>
        LET class == defined[Len(defined)]
            key == name_of(class)
        IN  /\ concat(key) \in DOMAIN classmap
            /\ classmap[concat(key)] = concat(class)
            /\ concat(key) = derived_name(concat(class))
            /\ \A i \in 1..Len(key) : ~is_upper(key[i]) /\ key[i] # "-"
            /\ name_of(key) = key

\* C23 witness: EnvironmentVariables was defined and stands in classmap
\* under environment_variables
C23_Witness ==
    /\ Len(defined) > 0
    /\ concat(defined[Len(defined)]) = "EnvironmentVariables"
    /\ "environment_variables" \in DOMAIN classmap
    /\ classmap["environment_variables"] = "EnvironmentVariables"

\* C30: after any sequence of class definitions classmap holds exactly one
\* entry per defined class, each found under its own derived name; a
\* further definition removes or replaces no entry of an earlier class,
\* also when two class names derive the same registry name
C30_RegistryComplete ==
    /\ Cardinality(DOMAIN classmap) = Len(defined)
    /\ \A i \in 1..Len(defined) :
         /\ concat(name_of(defined[i])) \in DOMAIN classmap
         /\ classmap[concat(name_of(defined[i]))] = concat(defined[i])

\* the keys and the codes of the fragments a GnuLs run is to render: the
\* non-empty styles in declaration order, then the neutral fragments
fragment_keys(sc) ==
    LET entries == truthy_entries(sc.styles)
        neutral == SelectSeq(BuiltinCodes, LAMBDA c : c \notin covered_codes(sc))
    IN  [i \in 1..Len(entries) |-> resolved(entries[i].name, LS_COLORS_MAP)]
        \o (IF clears_builtin(sc) THEN neutral ELSE <<>>)

fragment_codes(sc) ==
    LET entries == truthy_entries(sc.styles)
        neutral == SelectSeq(BuiltinCodes, LAMBDA c : c \notin covered_codes(sc))
    IN  [i \in 1..Len(entries) |-> expected_code(entries[i].style)]
        \o (IF clears_builtin(sc) THEN [i \in 1..Len(neutral) |-> "0"] ELSE <<>>)

\* the value of the statement is made of exactly these keys and codes
keyed_by(sc, keys) ==
    /\ Len(keys) = Len(fragment_codes(sc))
    /\ result.returned =
         <<"export " \o target_variable(sc, "LS_COLORS") \o "=\""
           \o join(":", [i \in 1..Len(keys) |-> keys[i] \o "=" \o fragment_codes(sc)[i]])
           \o "\"">>

\* the number of non-empty styles of a mapping that resolve to a native code
entries_for(sc, code) ==
    Cardinality({i \in 1..Len(sc.styles) :
                    /\ sc.styles[i].style # EmptyStyle
                    /\ resolved(sc.styles[i].name, LS_COLORS_MAP) = code})

\* C27 as stated: in the value produced by GnuLs.run no native code is the
\* key of more than one fragment, for every style mapping and either value
\* of clear_builtin, also when an entry is named both by its friendly name
\* and by its native code
C27_Original ==
    (ran("gnu_ls") /\ result.status = "ok") =>
        LET keys == fragment_keys(scope)
        IN  /\ keyed_by(scope, keys)
            /\ \A c \in elements(keys) : count(keys, c) = 1

\* C27 amended: every non-empty style contributes exactly one fragment, in
\* declaration order, and with clear_builtin true every built-in code no
\* style resolved to is the key of exactly one more; a native code is the
\* key of more than one fragment exactly when more than one non-empty entry
\* of the mapping resolves to it, and then of one fragment per such entry
C27_OneFragmentPerEntry ==
    (ran("gnu_ls") /\ result.status = "ok") =>
        LET keys == fragment_keys(scope)
        IN  /\ keyed_by(scope, keys)
            /\ \A c \in elements(keys) \cup elements(BuiltinCodes) :
                 count(keys, c) =
                   IF entries_for(scope, c) > 0 THEN entries_for(scope, c)
                   ELSE IF clears_builtin(scope) THEN 1 ELSE 0

\* C27 witness: directory and di were both declared with clear_builtin true
\* and the value holds two fragments with the key di
C27_Witness ==
    /\ ran("gnu_ls")
    /\ result.status = "ok"
    /\ clears_builtin(scope)
    /\ style_names(scope.styles) = {"directory", "di"}
    /\ count(fragment_keys(scope), "di") = 2
    /\ Len(fragment_keys(scope)) = 20

\* the error kinds an agent declares
DeclaredErrors == {"DyeError", "DyeSyntaxError"}

\* C28: for every scope whose styles are non-empty styles, a style with
\* attributes or a background but no foreground included, a run of GnuLs,
\* Eza or Iterm either produces output or fails with DyeError or
\* DyeSyntaxError, with no other failure
C28_DeclaredErrorsOnly ==
    (/\ ran("gnu_ls") \/ ran("eza") \/ ran("iterm")
     /\ \A i \in 1..Len(scope.styles) : scope.styles[i].style # EmptyStyle) =>
        result.status \in {"ok"} \cup DeclaredErrors

\* ------------------------------------------------------------------------
\* C25
\* ------------------------------------------------------------------------

\* the clauses of a colour specification read off its positions: a clause
\* runs from first to last between two ":" (or an end of the text), its
\* first "=" stands at eq, and the text before the "=" is an output element
accepted_clauses(colorspec) ==
    LET starts == {i \in 1..Len(colorspec) : i = 1 \/ colorspec[i - 1] = ":"}
        ends == {j \in 1..Len(colorspec) : j = Len(colorspec) \/ colorspec[j + 1] = ":"}
    IN {c \in [first : starts, eq : 1..Len(colorspec), last : ends] :
            /\ c.first <= c.eq /\ c.eq <= c.last
            /\ \A p \in c.first..c.last : colorspec[p] # ":"
            /\ colorspec[c.eq] = "="
            /\ \A p \in c.first..(c.eq - 1) : colorspec[p] # "="
            /\ \E n \in 1..Len(OUTPUT_ELEMENTS) :
                 OUTPUT_ELEMENTS[n] = SubSeq(colorspec, c.first, c.eq - 1)}

element_of(colorspec, c) == SubSeq(colorspec, c.first, c.eq - 1)

\* the elements DYE_COLORS gives a style, each with the style of its last
\* clause
elements_from(colorspec) ==
    [e \in {element_of(colorspec, c) : c \in accepted_clauses(colorspec)} |->
        LET c == CHOOSE c \in accepted_clauses(colorspec) :
                     /\ element_of(colorspec, c) = e
                     /\ \A o \in accepted_clauses(colorspec) :
                          element_of(colorspec, o) = e => o.first <= c.first
        IN SubSeq(colorspec, c.eq + 1, c.last)]

\* colours are off: NO_COLOR is set and not empty, or DYE_COLORS is unset
\* or empty
colors_off(env) ==
    \/ "NO_COLOR" \in DOMAIN env /\ Len(env["NO_COLOR"]) > 0
    \/ "DYE_COLORS" \notin DOMAIN env
    \/ Len(env["DYE_COLORS"]) = 0

expected_elements(env) == IF colors_off(env) THEN <<>> ELSE elements_from(env["DYE_COLORS"])

\* the entries under argparse.<name> of the usage_<name> elements
expected_styles(env) ==
    LET usage == {e \in DOMAIN expected_elements(env) : e[1] = "usage_"}
    IN [k \in {<<"argparse.", e[2]>> : e \in usage} |->
           expected_elements(env)[<<"usage_", k[2]>>]]

\* C25: every call of set_output_elements leaves output_elements holding
\* exactly the accepted clauses of DYE_COLORS (nothing when colours are off)
\* and RichHelpFormatter.styles holding exactly the usage ones, whatever
\* both held before
C25_NothingLeftOver ==
    [][environ' = environ =>
          /\ output_elements' = expected_elements(environ)
          /\ formatter_styles' = expected_styles(environ)]_vars

\* a call replaced the earlier style by the later of two usage_text clauses
\* while NO_COLOR was set to the empty text
C25_Witness ==
    /\ is_set(environ, "NO_COLOR")
    /\ is_set(environ, "DYE_COLORS")
    /\ environ["DYE_COLORS"] = <<"usage_", "text", "=", "red", ":", "usage_", "text", "=", "blue">>
    /\ output_elements = (<<"usage_", "text">> :> <<"blue">>)
    /\ formatter_styles = (<<"argparse.", "text">> :> <<"blue">>)

\* ------------------------------------------------------------------------
\* C26
\* ------------------------------------------------------------------------

\* the file the decision table names: the command-line file when one is
\* given, else the one of the environment variable, else none
named_file(a, option, env, variable) ==
    IF option \in DOMAIN a /\ Len(a[option]) > 0 THEN <<a[option]>>
    ELSE IF variable \in DOMAIN env /\ Len(env[variable]) > 0 THEN <<env[variable]>>
    ELSE <<>>

\* the decision table over (required, no-flag, named file) for an outcome
decided(required, flag, named, outcome) ==
    CASE flag /\ required -> outcome.status = "DyeError"
      [] flag /\ ~required ->
            outcome.status = "returned" /\ outcome.value.filename = <<>>
      [] ~flag /\ Len(named) = 1 /\ named[1] \in Files ->
            outcome.status = "returned" /\ outcome.value.filename = named[1]
      [] ~flag /\ Len(named) = 1 /\ named[1] \notin Files ->
            outcome.status = "FileNotFoundError"
      [] ~flag /\ Len(named) = 0 /\ required -> outcome.status = "DyeError"
      [] ~flag /\ Len(named) = 0 /\ ~required ->
            outcome.status = "returned" /\ outcome.value.filename = <<>>

\* C26: load_theme_from_args and load_pattern_from_args decide by the same
\* table: the no-flag fails when required and gives an empty theme/pattern
\* otherwise, whatever files are named; else the command-line file goes
\* before the environment variable, a named file that is not there raises
\* FileNotFoundError, and no file named fails when required and gives an
\* empty theme/pattern otherwise
C26_DecisionTable ==
    finished # NotStarted =>
        IF finished.call = "load_theme_from_args"
        THEN decided(finished.required, args.no_theme,
                     named_file(args, "theme_file", environ, "DYE_THEME_FILE"),
                     finished.outcome)
        ELSE decided(finished.required, "no_pattern" \in DOMAIN args /\ args.no_pattern,
                     named_file(args, "pattern_file", environ, "DYE_PATTERN_FILE"),
                     finished.outcome)

\* a theme is loaded from the command-line file although the environment
\* names a file that is not there
C26_Witness ==
    /\ finished # NotStarted
    /\ finished.call = "load_theme_from_args"
    /\ ~args.no_theme
    /\ "theme_file" \in DOMAIN args /\ args.theme_file = <<"theme.toml">>
    /\ "DYE_THEME_FILE" \in DOMAIN environ /\ environ["DYE_THEME_FILE"] = <<"missing.toml">>
    /\ finished.outcome = Returned(Theme_load(<<"theme.toml">>))

\* ------------------------------------------------------------------------
\* C29
\* ------------------------------------------------------------------------

\* the names between the commas of the text of --scope, taken off its end
\* one name at a time
RECURSIVE requested_names(_)
requested_names(text) ==
    LET commas == {p \in 1..Len(text) : text[p] = ","}
        last == CHOOSE p \in commas : \A q \in commas : q <= p
    IN IF commas = {} THEN <<text>>
       ELSE Append(requested_names(SubSeq(text, 1, last - 1)),
                   SubSeq(text, last + 1, Len(text)))

\* the pattern command_apply works on, when it gets one
pattern_applied ==
    load_pattern_from_args(args, TRUE, EmptyTheme, environ)

\* the scopes asked for: the --scope list, or the scopes of the pattern in
\* declaration order
requested ==
    IF "scope" \in DOMAIN args /\ Len(args.scope) > 0
    THEN requested_names(args.scope)
    ELSE pattern_scopes(pattern_applied.value)

\* the requested names that are no scope of the pattern, by position
unknown_positions ==
    LET declared == pattern_scopes(pattern_applied.value)
        names == requested
    IN {n \in 1..Len(names) : \A k \in 1..Len(declared) : declared[k] # names[n]}

first_unknown == CHOOSE n \in unknown_positions : \A o \in unknown_positions : n <= o

\* C29: command_apply runs the agents of the requested scopes in the
\* requested order; at the first requested name that is no scope of the
\* pattern it raises DyeError `<name>: no such scope` with the agents of
\* exactly the scopes listed before that name run and none after it
C29_RequestedOrder ==
    (finished # NotStarted /\ pattern_applied.status = "returned") =>
        IF unknown_positions = {}
        THEN /\ finished.outcome = Returned(EXIT_SUCCESS)
             /\ finished.agents_run = requested
        ELSE /\ finished.outcome.status = "DyeError"
             /\ finished.outcome.message = requested[first_unknown] \o <<": no such scope">>
             /\ finished.agents_run = SubSeq(requested, 1, first_unknown - 1)

\* --scope term,ls,bogus,finder: term and ls ran in that order, finder never
C29_Witness ==
    /\ finished # NotStarted
    /\ "scope" \in DOMAIN args
    /\ args.scope = <<"term", ",", "ls", ",", "bogus">>
    /\ finished.agents_run = <<(<<"term">>), <<"ls">>>>
    /\ finished.outcome.status = "DyeError"
    /\ finished.outcome.message = <<"bogus", ": no such scope">>

\* ------------------------------------------------------------------------
\* C24
\* ------------------------------------------------------------------------

help_asked == args.help \/ ("command" \in DOMAIN args /\ args.command = <<"help">>)

no_command == "command" \notin DOMAIN args \/ Len(args.command) = 0

KnownCommands == {<<"apply">>, <<"preview">>, <<"print">>, <<"agents">>, <<"themes">>}

\* the outcome of the command that dispatch runs, run on its own
command_alone == run_command(args, environ).outcome

\* dispatch handed over an exit code
exit_code_returned ==
    /\ finished.outcome.status = "returned"
    /\ finished.outcome.value \in {EXIT_SUCCESS, EXIT_ERROR, EXIT_USAGE}

\* help before version before the command, usage errors on standard error
\* only, and the two error kinds of a command turned into EXIT_ERROR
outcomes_mapped ==
    CASE help_asked -> finished.outcome = Returned(EXIT_SUCCESS)
      [] ~help_asked /\ args.version -> finished.outcome = Returned(EXIT_SUCCESS)
      [] ~help_asked /\ ~args.version /\ (no_command \/ args.command \notin KnownCommands) ->
            /\ finished.outcome = Returned(EXIT_USAGE)
            /\ Len(finished.stderr) > 0
            /\ Len(finished.stdout) = 0
      [] OTHER ->
            command_alone.status \in {"DyeError", "DyeSyntaxError"} =>
                /\ finished.outcome = Returned(EXIT_ERROR)
                /\ Len(finished.stderr) > 0

\* C24: dispatch always returns an exit code: help comes before version and
\* before any command and gives EXIT_SUCCESS, version gives EXIT_SUCCESS, no
\* command or an unknown one gives EXIT_USAGE with the message on standard
\* error and nothing on standard output, and a DyeError or DyeSyntaxError
\* of the command is reported on standard error and gives EXIT_ERROR
C24_ExitCode ==
    finished # NotStarted => (exit_code_returned /\ outcomes_mapped)

====
